---- MODULE Spec2Model ----
(***************************************************************************)
(* Order lifecycle of the futures bot: the ExecutionEngine's in-memory     *)
(* maps, the candle-close handler tasks that place entries, the paired     *)
(* exit orders, the reconciliation loop, the forced exits and the operator *)
(* commands, each cut at the awaits at which asyncio can switch tasks.     *)
(***************************************************************************)
EXTENDS Integers, FiniteSets, Sequences, TLC

\* ---- bounds of the model ------------------------------------------------
NumSymbols == 1
MaxTasks == 2
MaxPos == 2
MaxTime == 90
MaxOps == 3
MaxInFlight == 2

Symbols == 1..NumSymbols
Tasks == 1..MaxTasks

\* ---- program constants --------------------------------------------------
LOSS_COOLDOWN_MINUTES == 15
TIME_EXIT_MINUTES == 90
CHANDELIER_MULT == 2
\* 5.5 USDT in the source; capitals are whole numbers here, so the test
\* capital < 5.5 is the test capital < 6
min_order_usdt == 6
DryRunCapital == 1000

\* ---- exchange reference data and sampled inputs ---------------------------
PriceTick == 2
AmountStep == 2
Amounts == {3}
FillPrices == {0, 10}
Capitals == {0, 1000}
TpDist == 6
SlDist == 3
PnLs == {-5, 0, 5}
MaxOwnTrades == 2

\* the clock is in minutes and advances by one of these steps
TickSteps == {LOSS_COOLDOWN_MINUTES, TIME_EXIT_MINUTES}

NoSym == NumSymbols + 1
NoBalance == 0 - 1

VARIABLES
    is_halted,          \* ExecutionEngine.is_halted
    active_positions,   \* keys of ExecutionEngine.active_positions
    pending_entries,    \* keys of ExecutionEngine.pending_entries
    loss_cooldown,      \* ExecutionEngine.loss_cooldown: symbol -> expiry (0: no entry)
    IS_PAUSED,          \* settings.IS_PAUSED
    DRY_RUN,            \* settings.DRY_RUN
    portfolio,          \* PortfolioState.positions: symbol -> direction ("none": no entry)
    now,                \* the clock read by datetime.utcnow()
    pos,                \* exchange: contracts held per symbol
    entriesOpen,        \* exchange: market entry orders of the bot accepted since the symbol was last flat
    stdOrders,          \* exchange: roles ("TP", "SL") of the open reduce-only orders on the standard channel
    algoOrders,         \* exchange: types of the open conditional orders on the algo channel
    task,               \* the candle-close handler tasks
    lastEntry,          \* what the most recent call of place_market_entry_order returned
    daemon,             \* the _time_exit_daemon task spawned by the entry of each handler slot
    sm,                 \* state_machine_loop: the reconciliation tick and the fail-safe check
    ch,                 \* chandelier_monitoring_loop
    op,                 \* the operator's panic command in progress
    panicked,           \* a panic has paused the bot and no resume has followed
    ops,                \* operations started so far (bounded by MaxOps)
    trades,             \* the trades table: rows written per symbol and action
    cx,                 \* the calls of cancel_pending_order in progress
    lastCancel,         \* what the most recent call of cancel_pending_order returned
    sync,               \* sync_state_from_exchange, the startup sweep
    stops,              \* PortfolioState.positions: symbol -> extreme, chandelier_stop, atr
    trail,              \* the candles fed to update_chandelier and what the calls returned
    conc,               \* process_closed_kline seen from the same-direction limit: counts read, position registered
    dec,                \* the arguments of the last call of check_entry and what it returned
    siz,                \* the arguments of the last call of calculate_position_size and what it returned
    bk,                 \* a call wrapped by with_exponential_backoff: its parameters, attempts and waits
    mp,                 \* main: its position, the exchange session, the three core tasks
    tg,                 \* the Telegram commander: settings set by command, the environment, the chat of the last command
    kl                  \* the closed candles of the stream: received, waiting for their task, merged into df_map, read by the monitor

vars == <<is_halted, active_positions, pending_entries, loss_cooldown, IS_PAUSED,
          DRY_RUN, portfolio, now, pos, entriesOpen, stdOrders, algoOrders, task, lastEntry,
          daemon, sm, ch, op, panicked, ops, trades, cx, lastCancel, sync, stops, trail, conc, dec, siz, bk, mp, tg, kl>>

\* a handler task and the record of the last return
taskVars == <<task, lastEntry>>

engineVars == <<is_halted, active_positions, pending_entries, loss_cooldown>>
exchangeVars == <<pos, entriesOpen, stdOrders, algoOrders>>
settingsVars == <<IS_PAUSED, DRY_RUN, panicked>>

\* the state of what runs apart from the loops: the calls of cancel_pending_order,
\* the startup sweep, and the stop prices of the trailing stop (the loops are
\* explored with the crossing of a stop as a free choice)
\* the state of the parts that are checked on their own
pureVars == <<trail, conc, dec, siz, bk, mp, tg, kl>>

standaloneVars == <<cx, lastCancel, sync, stops, pureVars>>

\* ---- exchange precision rules ---------------------------------------------
\* ccxt price_to_precision: round to the nearest tick, half up
PriceToPrecision(p) == ((2 * p + PriceTick) \div (2 * PriceTick)) * PriceTick

\* ccxt amount_to_precision: truncate to the quantity step
AmountToPrecision(a) == (a \div AmountStep) * AmountStep

ExitSide(signal) == IF signal = "LONG" THEN "sell" ELSE "buy"

RawTp(signal, avg, tp_dist) == IF signal = "LONG" THEN avg + tp_dist ELSE avg - tp_dist
RawSl(signal, avg, sl_dist) == IF signal = "LONG" THEN avg - sl_dist ELSE avg + sl_dist

\* ---- handler task records -------------------------------------------------
NoReq == [type |-> "none", side |-> "none", quantity |-> 0, trigger |-> 0, reduceOnly |-> FALSE]

IdleTask ==
    [pc |-> "idle", sym |-> NoSym, signal |-> "none", amount |-> 0,
     tp |-> 0, sl |-> 0, accepted |-> FALSE, marked |-> FALSE, slVia |-> "none",
     slReq |-> NoReq, rej |-> "none", recs |-> 0]

\* pnl: the realized P&L of the market close the daemon sent, as the exchange
\* books it (the daemon does not read it)
IdleDaemon == [pc |-> "idle", sym |-> NoSym, due |-> 0, algoTodo |-> {}, pnl |-> 0]

IdleCh == [pc |-> "sleep", todo |-> {}, cur |-> NoSym, amt |-> 0]

IdleOp ==
    [pc |-> "idle", todo |-> {}, cur |-> NoSym, algoTodo |-> {},
     amts |-> [s \in Symbols |-> 0]]

\* err: this run of check_active_positions_state (asleep: the last one) met an
\* exception; prevErr: so did the run before it; closed0: the CLOSED rows of
\* each symbol when the run began; own: the answer of fetch_my_trades
IdleSm ==
    [pc |-> "sleep", snap |-> {}, todo |-> {}, cur |-> NoSym, toRemove |-> {},
     pnl |-> 0, algoTodo |-> {}, bal |-> NoBalance, err |-> FALSE, prevErr |-> FALSE,
     own |-> <<>>, closed0 |-> [s \in Symbols |-> 0]]

\* the coroutines that are between their start and their end
InFlight ==
    Cardinality({t \in Tasks : task[t].pc # "idle"})
    + Cardinality({t \in Tasks : daemon[t].pc \notin {"idle", "sleep"}})
    + (IF sm.pc # "sleep" THEN 1 ELSE 0)
    + (IF ch.pc # "sleep" THEN 1 ELSE 0)
    + (IF op.pc # "idle" THEN 1 ELSE 0)

\* the exploration starts at most MaxOps operations, at most MaxInFlight at a time
CanStart == ops < MaxOps /\ InFlight < MaxInFlight

\* the handler slots are interchangeable: a new task takes the lowest free one
FreeSlot(t) == task[t].pc = "idle" /\ daemon[t].pc = "idle"
LowestFreeSlot(t) == FreeSlot(t) /\ \A u \in Tasks : u < t => ~FreeSlot(u)

\* the return of a call of place_market_entry_order: its symbol, the value it
\* returned, the value place_tp_sl_orders returned to it, the early return taken
\* and the channel on which the stop was placed
NoEntry ==
    [sym |-> NoSym, ret |-> "none", tpslRet |-> "none", rej |-> "none", slVia |-> "none"]

Returned(rec, r, tpsl) ==
    [sym |-> rec.sym, ret |-> r, tpslRet |-> tpsl, rej |-> rec.rej, slVia |-> rec.slVia]

\* the handler task is over
EndTask(t) == task' = [task EXCEPT ![t] = IdleTask]

\* portfolio.register_position: the handler calls it after place_market_entry_order
\* returns, whatever it returned
RegisterPosition(pf, s, direction) == [pf EXCEPT ![s] = direction]

\* self.active_positions[symbol] = True
MarkActive(ap, s) == ap \cup {s}

\* a cooldown that is never over
CooldownNeverExpires(lc, s, t) == lc[s] # 0

\* the cooldown check of place_market_entry_order
InCooldown(lc, s, t) == lc[s] # 0 /\ t < lc[s]

\* mutant: the early returns without the check of active_positions
EntryRejectionNoActive(halted, ap, lc, s, t) ==
    IF halted THEN "halted"
    ELSE IF InCooldown(lc, s, t) THEN "cooldown"
    ELSE "none"

\* mutant: the early returns without the check of is_halted
EntryRejectionNoHalt(halted, ap, lc, s, t) ==
    IF s \in ap THEN "active"
    ELSE IF InCooldown(lc, s, t) THEN "cooldown"
    ELSE "none"

\* the three early returns of place_market_entry_order
EntryRejection(halted, ap, lc, s, t) ==
    IF halted THEN "halted"
    ELSE IF s \in ap THEN "active"
    ELSE IF InCooldown(lc, s, t) THEN "cooldown"
    ELSE "none"

\* the actions of the rows of the trades table; ENTRY stands for LONG and SHORT
TradeActions == {"ENTRY", "CANCELED", "MANUAL", "CLOSED", "TIME_EXIT"}

\* the trades table before the first commit
NoTrades == [s \in Symbols |-> [a \in TradeActions |-> 0]]

\* session.add(Trade(action, symbol, ...)) followed by a commit that succeeds
AddTrade(tr, s, a) == [tr EXCEPT ![s][a] = @ + 1]

\* mutant: the pending map is restored with every symbol in it
StalePendingEntries == Symbols

\* self.pending_entries: dict = {}
NewPendingEntries == {}

\* a call of cancel_pending_order that has not started, and the record of a return
IdleCx == [pc |-> "idle", sym |-> NoSym]

NoCancel == [sym |-> NoSym, ret |-> "none", err |-> "none", tracked |-> FALSE]

\* sync_state_from_exchange before its call. todo: the stale orders of the loop
\* in progress; found: every order the two listings returned; stale: the listed
\* orders the sweep decided to cancel; tried: the orders whose cancel was sent;
\* err: an exchange call of the sweep raised
IdleSync ==
    [pc |-> "start", todo |-> {}, found |-> {}, stale |-> {}, tried |-> {}, err |-> FALSE]

\* main before its first statement. pc: "db", "sync", "telegram", "gather",
\* "finally", "close", "done"; session: the DataPipeline session ("none", "open",
\* "closed"); closes: calls of pipeline.close(); app: the Telegram application
\* is bound and not None; core: the three tasks ("none", "running", "failed");
\* reraised: the tasks whose exception guarded has logged and raised again;
\* exit: how main left its try block; warned: the cleanup steps whose exception
\* was logged
CoreTasks == {"StateMachine", "WebSocketLoop", "ChandelierMonitor"}
NoMain == [pc |-> "db", session |-> "none", closes |-> 0, app |-> FALSE,
           core |-> [c \in CoreTasks |-> "none"], reraised |-> {}, exit |-> "none",
           warned |-> {}]

\* a wrapped call before its first attempt, with the defaults of the decorator
\* scaled down; pc: "call" (awaiting func), "sleep", "returned", "raised"
NoBackoff == [max_retries |-> 0, base_delay |-> 1, max_delay |-> 1, pc |-> "call",
              retries |-> 0, delay |-> 1, attempts |-> 0, waits |-> <<>>, err |-> "none"]

\* the last call of calculate_position_size: by whom, with what, under which
\* attributes of the RiskManager, and its outcome ("none" before the call)
NoSizing == [kind |-> "none", size |-> <<0, 1>>, target |-> 0, min_notional_applied |-> FALSE,
             keys |-> {}]
NoSizingArgs == [how |-> "direct", capital |-> 0, entry_price |-> 0, atr |-> 0,
                 risk_pm |-> 0, leverage |-> 1, min_order |-> 0, precise |-> TRUE]
NoSiz == [called |-> FALSE, args |-> NoSizingArgs, ret |-> NoSizing]

\* a missing indicator value (NaN)
NaN == 0 - 1

\* the last call of check_entry: its arguments, reduced to the last rows of the
\* frames, and its outcome ("none" before the first call)
NoFrame1h == [len |-> 0, EMA_50 |-> NaN, EMA_200 |-> NaN]
NoFrame15m == [len |-> 0, ADX_14 |-> NaN, MACD |-> NaN, MACD_S |-> NaN]
NoArgs == [gate |-> "short", df_1h |-> NoFrame1h, df_15m |-> NoFrame15m,
           cvd_trend |-> "None", RSI_14 |-> NaN, volume |-> 0, bar |-> <<0, 0, 0>>,
           open_longs |-> 0, open_shorts |-> 0]
NoDec == [called |-> FALSE, args |-> NoArgs, ret |-> "none"]

\* settings.MAX_CONCURRENT_SAME_DIR, and the symbols whose handlers are followed
\* through the same-direction limit
MAX_CONCURRENT_SAME_DIR == 2
NumPortfolioSymbols == 3
PortfolioSymbols == 1..NumPortfolioSymbols

\* reg: PortfolioState.positions (symbol -> direction); held: the symbols whose
\* entry the exchange accepted and that are still open; h: the handler of each
\* symbol between check_entry and register_position
IdleHandler == [pc |-> "idle", signal |-> "none"]
NoConc == [reg  |-> [s \in PortfolioSymbols |-> "none"],
           held |-> [s \in PortfolioSymbols |-> FALSE],
           h    |-> [s \in PortfolioSymbols |-> IdleHandler]]

\* no candle fed and no call made. bars: the candles (high, low, atr) fed to
\* update_chandelier since the symbol was registered at entry with atr;
\* stops: the stop each of them left; last: the last call and what it returned
NoLog == [entry |-> 0, atr |-> 0, bars |-> <<>>, stops |-> <<>>]
NoCall == [op |-> "none", sym |-> NoSym, ret |-> "none"]
NoTrail == [log |-> [s \in Symbols |-> NoLog], last |-> NoCall]

\* PortfolioState.positions before the first register_position; call is the
\* method that last wrote the entry
\* ---- the Telegram commander (telegram_commands.py) ----------------------------
\* settings.TELEGRAM_CHAT_ID, read from the environment as text
TELEGRAM_CHAT_ID == "1001"

\* update.effective_chat.id of the chats that send commands: the operator's and another
ChatIds == {1001, 2002}

\* the attributes of settings that a command assigns, besides IS_PAUSED and DRY_RUN
SettingAttrs ==
    {"K_VALUE", "RISK_PERCENTAGE", "LEVERAGE", "TIMEFRAME", "TIME_EXIT_MINUTES",
     "VOL_MULT", "ATR_RATIO_MULT", "SL_MULT", "TP_MULT", "LOSS_COOLDOWN_MINUTES"}

\* the keys that update_env_variable writes
EnvKeys == SettingAttrs \cup {"DRY_RUN"}

\* before the first command: every attribute and every key as config.py loaded
\* it, no restart scheduled; exists: the .env file is there
NoTg ==
    [chat |-> 0, n |-> 0, restart |-> FALSE, exists |-> TRUE,
     settings |-> [a \in SettingAttrs |-> "config"],
     environ |-> [k \in EnvKeys |-> "config"],
     dotenv |-> [k \in EnvKeys |-> "config"]]

\* the candle series after warm_up_data: candle 0 is the last one loaded, no
\* message received, no task waiting, the monitor has read nothing
NoKl ==
    [received |-> [s \in Symbols |-> 0], merged |-> [s \in Symbols |-> 0],
     seen |-> [s \in Symbols |-> [read |-> FALSE, bar |-> 0, latest |-> 0,
                                  waiting |-> FALSE]],
     queue |-> <<>>]

NoStop == [extreme |-> 0, stop |-> 0, atr |-> 0, call |-> "none"]
NoStops == [s \in Symbols |-> NoStop]

\* ExecutionEngine.__init__: the maps of the engine but the halt flag
InitEngine ==
    /\ active_positions = {}
    /\ pending_entries = NewPendingEntries
    /\ loss_cooldown = [s \in Symbols |-> 0]

\* an account with no position and no open order
InitExchange ==
    /\ pos = [s \in Symbols |-> 0]
    /\ entriesOpen = [s \in Symbols |-> 0]
    /\ stdOrders = [s \in Symbols |-> {}]
    /\ algoOrders = [s \in Symbols |-> {}]

\* the module globals of main.py and config.py, and every coroutine before its start
InitLoops ==
    /\ IS_PAUSED = FALSE
    /\ DRY_RUN \in BOOLEAN
    /\ portfolio = [s \in Symbols |-> "none"]
    /\ now = 0
    /\ task = [t \in Tasks |-> IdleTask]
    /\ lastEntry = NoEntry
    /\ daemon = [t \in Tasks |-> IdleDaemon]
    /\ sm = IdleSm
    /\ ch = IdleCh
    /\ op = IdleOp
    /\ panicked = FALSE
    /\ ops = 0
    /\ trades = NoTrades
    /\ cx = [c \in Tasks |-> IdleCx]
    /\ lastCancel = NoCancel
    /\ sync = IdleSync
    /\ stops = NoStops

\* the parts that are checked on their own, before their first call
InitTasks == InitLoops /\ trail = NoTrail /\ conc = NoConc /\ dec = NoDec /\ siz = NoSiz /\ bk = NoBackoff /\ mp = NoMain /\ tg = NoTg /\ kl = NoKl

\* the state after construction apart from a wrapped call
InitApartFromBk ==
    is_halted = FALSE /\ InitEngine /\ InitExchange /\ InitLoops /\ trail = NoTrail /\ conc = NoConc /\ dec = NoDec /\ siz = NoSiz /\ mp = NoMain /\ tg = NoTg /\ kl = NoKl

\* the state after construction apart from the arguments of calculate_position_size
InitApartFromSiz ==
    is_halted = FALSE /\ InitEngine /\ InitExchange /\ InitLoops /\ trail = NoTrail /\ conc = NoConc /\ dec = NoDec /\ bk = NoBackoff /\ mp = NoMain /\ tg = NoTg /\ kl = NoKl

\* the state after construction apart from the arguments of check_entry
InitApartFromDec ==
    is_halted = FALSE /\ InitEngine /\ InitExchange /\ InitLoops /\ trail = NoTrail /\ conc = NoConc /\ siz = NoSiz /\ bk = NoBackoff /\ mp = NoMain /\ tg = NoTg /\ kl = NoKl

\* everything but the halt flag after ExecutionEngine.__init__ and the module
\* globals of main.py and config.py
InitRest == InitEngine /\ InitExchange /\ InitTasks

\* self.is_halted = False
Init == is_halted = FALSE /\ InitRest

\* no statement of the program assigns is_halted after construction; this
\* initial condition also admits an engine whose flag has been set from outside
InitHalted == is_halted \in BOOLEAN /\ InitRest

\* ---- websocket_loop / process_closed_kline --------------------------------
\* websocket_loop: a closed candle of a subscribed symbol spawns a handler task
SpawnHandler(t, s) ==
    /\ ~IS_PAUSED
    /\ LowestFreeSlot(t)
    /\ CanStart
    /\ ops' = ops + 1
    /\ task' = [task EXCEPT ![t] = [IdleTask EXCEPT !.pc = "k_start", !.sym = s]]
    /\ UNCHANGED <<engineVars, settingsVars, portfolio, lastEntry, now, exchangeVars, daemon, sm, ch, op, trades,
                   standaloneVars>>

\* process_closed_kline up to its first await (fetch_balance)
KlineStart(t) ==
    /\ task[t].pc = "k_start"
    /\ IF task[t].sym \in active_positions \/ task[t].sym \in pending_entries
       THEN EndTask(t)
       ELSE \E sig \in {"none", "LONG", "SHORT"} :
              task' = [task EXCEPT ![t] =
                         IF sig = "none" THEN IdleTask
                         ELSE [@ EXCEPT !.pc = "k_balance", !.signal = sig]]
    /\ UNCHANGED <<engineVars, settingsVars, portfolio, lastEntry, now, exchangeVars, daemon, sm, ch, op, ops, trades,
                   standaloneVars>>

\* the handler's tail: place_market_entry_order has returned r, the position is
\* registered with the trailing-stop tracker
ReturnFromEntry(t, r, tpsl) ==
    /\ EndTask(t)
    /\ lastEntry' = Returned(task[t], r, tpsl)
    /\ portfolio' = RegisterPosition(portfolio, task[t].sym, task[t].signal)

\* fetch_balance answers; sizing; place_market_entry_order up to its first await.
\* The size and the tp/sl distances that process_closed_kline takes from
\* risk.calculate_position_size are inputs here (Amounts, TpDist, SlDist); a
\* sizing call that raises or yields size 0 is the first branch.
KlineBalance(t) ==
    /\ task[t].pc = "k_balance"
    /\ \/ \* fetch_balance raised, the capital is too small or the size is zero
          /\ EndTask(t)
          /\ UNCHANGED <<portfolio, lastEntry>>
       \/ \E capital \in Capitals, amount \in Amounts :
            LET cap == IF DRY_RUN THEN DryRunCapital ELSE capital
                rej == EntryRejection(is_halted, active_positions, loss_cooldown,
                                      task[t].sym, now)
            IN  /\ cap >= min_order_usdt
                /\ IF rej # "none"
                   THEN /\ EndTask(t)
                        /\ lastEntry' = Returned([task[t] EXCEPT !.rej = rej], "false", "none")
                        /\ portfolio' = RegisterPosition(portfolio, task[t].sym,
                                                         task[t].signal)
                   ELSE /\ task' = [task EXCEPT ![t].amount = amount,
                                      ![t].pc = IF DRY_RUN THEN "e_ticker" ELSE "e_setup"]
                        /\ UNCHANGED <<portfolio, lastEntry>>
    /\ UNCHANGED <<engineVars, settingsVars, now, exchangeVars, daemon, sm, ch, op, ops, trades,
                   standaloneVars>>

\* ---- place_market_entry_order after its first await ------------------------
\* setup_margin_and_leverage: set_margin_mode and set_leverage answered (the two
\* awaits follow each other and their errors are swallowed); the market order is sent
EntrySetup(t) ==
    /\ task[t].pc = "e_setup"
    /\ task' = [task EXCEPT ![t].pc = "e_create"]
    /\ UNCHANGED <<engineVars, settingsVars, portfolio, lastEntry, now, exchangeVars, daemon, sm, ch, op, ops, trades,
                   standaloneVars>>

\* mutant: the symbol is tracked only at the end of place_tp_sl_orders
TrackLater(ap, s) == ap

\* the hotfix line of place_market_entry_order: the symbol is tracked as soon as
\* the fill price is known, before place_tp_sl_orders is called
TrackOnFill(ap, s) == MarkActive(ap, s)

\* place_market_entry_order from the resolved fill price to the first await of
\* place_tp_sl_orders (the commit of the entry record)
AfterPrice(t, avg) ==
    IF avg <= 0
    THEN /\ ReturnFromEntry(t, "false", "none")
         /\ UNCHANGED <<active_positions, daemon>>
    ELSE LET sig == task[t].signal
         IN  /\ task' = [task EXCEPT ![t].pc = "t_db",
                            ![t].marked = task[t].sym \in TrackOnFill(active_positions,
                                                                       task[t].sym),
                            ![t].tp = PriceToPrecision(RawTp(sig, avg, TpDist)),
                            ![t].sl = PriceToPrecision(RawSl(sig, avg, SlDist))]
             /\ active_positions' = TrackOnFill(active_positions, task[t].sym)
             /\ daemon' = IF TIME_EXIT_MINUTES > 0
                          THEN [daemon EXCEPT ![t] = [IdleDaemon EXCEPT !.pc = "sleep",
                                                !.sym = task[t].sym,
                                                !.due = now + TIME_EXIT_MINUTES]]
                          ELSE daemon
             /\ UNCHANGED <<portfolio, lastEntry>>

\* an exception inside the try of place_market_entry_order: it returns True
EntryRaises(t) ==
    /\ ReturnFromEntry(t, "true", "none")
    /\ UNCHANGED <<active_positions, daemon, trades,
                   standaloneVars>>

\* create_order(type=market) answered
EntryCreate(t) ==
    /\ task[t].pc = "e_create"
    /\ LET s == task[t].sym
       IN  \/ /\ pos[s] < MaxPos
              /\ pos' = [pos EXCEPT ![s] = @ + 1]
              /\ entriesOpen' = [entriesOpen EXCEPT ![s] = @ + 1]
              /\ task' = [task EXCEPT ![t].pc = "e_fetch", ![t].accepted = TRUE]
              /\ UNCHANGED <<portfolio, lastEntry, active_positions, daemon>>
           \/ /\ EntryRaises(t)
              /\ UNCHANGED <<pos, entriesOpen>>
    /\ UNCHANGED <<is_halted, pending_entries, loss_cooldown, settingsVars, now,
                   stdOrders, algoOrders, sm, ch, op, ops, trades,
                   standaloneVars>>

\* fetch_order answered: the average price of the fill
EntryFetch(t) ==
    /\ task[t].pc = "e_fetch"
    /\ \/ \E avg \in FillPrices :
            IF avg = 0
            THEN /\ task' = [task EXCEPT ![t].pc = "e_trades"]
                 /\ UNCHANGED <<portfolio, lastEntry, active_positions, daemon>>
            ELSE AfterPrice(t, avg)
       \/ EntryRaises(t)
    /\ UNCHANGED <<is_halted, pending_entries, loss_cooldown, settingsVars, now,
                   exchangeVars, sm, ch, op, ops, trades,
                   standaloneVars>>

\* fetch_my_trades answered: the price of the last own trade (0: none)
EntryTrades(t) ==
    /\ task[t].pc = "e_trades"
    /\ \/ \E avg \in FillPrices : AfterPrice(t, avg)
       \/ EntryRaises(t)
    /\ UNCHANGED <<is_halted, pending_entries, loss_cooldown, settingsVars, now,
                   exchangeVars, sm, ch, op, ops, trades,
                   standaloneVars>>

\* dry run: fetch_ticker answered
EntryTicker(t) ==
    /\ task[t].pc = "e_ticker"
    /\ \/ \E avg \in FillPrices : AfterPrice(t, avg)
       \/ EntryRaises(t)
    /\ UNCHANGED <<is_halted, pending_entries, loss_cooldown, settingsVars, now,
                   exchangeVars, sm, ch, op, ops, trades,
                   standaloneVars>>

\* ---- place_tp_sl_orders ---------------------------------------------------
\* the except of place_tp_sl_orders returns False; place_market_entry_order
\* ignores that value and returns True
\* mutant: the except of place_tp_sl_orders reports success
TpslExceptReturnsTrue == "true"

\* the value returned by the except of place_tp_sl_orders
TpslExceptReturn == "false"

TpslRaises(t) ==
    /\ EndTask(t)
    /\ lastEntry' = Returned(task[t], "true", TpslExceptReturn)
    /\ portfolio' = RegisterPosition(portfolio, task[t].sym, task[t].signal)

\* mutant: the fallback sends the amount as it was passed in
SlAlgoRequestRaw(signal, amount, sl_price) ==
    [type |-> "STOP_MARKET", side |-> ExitSide(signal),
     quantity |-> amount, trigger |-> PriceToPrecision(sl_price),
     reduceOnly |-> TRUE]

\* the request of the algo-channel fallback of the stop-loss leg
SlAlgoRequest(signal, amount, sl_price) ==
    [type |-> "STOP_MARKET", side |-> ExitSide(signal),
     quantity |-> AmountToPrecision(amount), trigger |-> PriceToPrecision(sl_price),
     reduceOnly |-> TRUE]

\* the request of the algo-channel fallback of the take-profit leg
TpAlgoRequest(signal, amount, tp_price) ==
    [type |-> "TAKE_PROFIT_MARKET", side |-> ExitSide(signal),
     quantity |-> AmountToPrecision(amount), trigger |-> PriceToPrecision(tp_price),
     reduceOnly |-> TRUE]

\* the commit of the entry record answered; dry run ends here, live sends the
\* limit take-profit
TpslDb(t) ==
    /\ task[t].pc = "t_db"
    /\ \/ /\ TpslRaises(t)
          /\ UNCHANGED <<active_positions, trades>>
       \/ /\ DRY_RUN
          /\ trades' = AddTrade(trades, task[t].sym, "ENTRY")
          /\ active_positions' = MarkActive(active_positions, task[t].sym)
          /\ ReturnFromEntry(t, "true", "true")
       \/ /\ ~DRY_RUN
          /\ trades' = AddTrade(trades, task[t].sym, "ENTRY")
          /\ task' = [task EXCEPT ![t].pc = "t_tp", ![t].recs = @ + 1]
          /\ UNCHANGED <<active_positions, portfolio, lastEntry>>
    /\ UNCHANGED <<is_halted, pending_entries, loss_cooldown, settingsVars, now,
                   exchangeVars, daemon, sm, ch, op, ops,
                   standaloneVars>>

\* create_order(type=limit, reduceOnly) answered; a rejection sends the
\* take_profit_market retry, then the stop follows
TpslTp(t) ==
    /\ task[t].pc = "t_tp"
    /\ \/ /\ stdOrders' = [stdOrders EXCEPT ![task[t].sym] = @ \cup {"TP"}]
          /\ task' = [task EXCEPT ![t].pc = "t_sl"]
       \/ /\ task' = [task EXCEPT ![t].pc = "t_tpm"]
          /\ UNCHANGED stdOrders
    /\ UNCHANGED <<engineVars, settingsVars, portfolio, lastEntry, now, pos, entriesOpen,
                   algoOrders, daemon, sm, ch, op, ops, trades,
                   standaloneVars>>

\* create_order(type=take_profit_market) answered
TpslTpm(t) ==
    /\ task[t].pc = "t_tpm"
    /\ \/ /\ stdOrders' = [stdOrders EXCEPT ![task[t].sym] = @ \cup {"TP"}]
          /\ task' = [task EXCEPT ![t].pc = "t_sl"]
          /\ UNCHANGED <<portfolio, lastEntry>>
       \/ \* rejected with -4120: the algo channel is tried
          /\ task' = [task EXCEPT ![t].pc = "t_tpalgo"]
          /\ UNCHANGED <<stdOrders, portfolio, lastEntry>>
       \/ \* any other rejection is raised again
          /\ TpslRaises(t)
          /\ UNCHANGED stdOrders
    /\ UNCHANGED <<engineVars, settingsVars, now, pos, entriesOpen, algoOrders, daemon, sm, ch, op, ops, trades,
                   standaloneVars>>

\* the algo-channel take-profit request answered
TpslTpAlgo(t) ==
    /\ task[t].pc = "t_tpalgo"
    /\ \/ /\ algoOrders' = [algoOrders EXCEPT ![task[t].sym] =
                              @ \cup {TpAlgoRequest(task[t].signal, task[t].amount, task[t].tp).type}]
          /\ task' = [task EXCEPT ![t].pc = "t_sl"]
          /\ UNCHANGED <<portfolio, lastEntry>>
       \/ /\ TpslRaises(t)
          /\ UNCHANGED algoOrders
    /\ UNCHANGED <<engineVars, settingsVars, now, pos, entriesOpen, stdOrders, daemon, sm, ch, op, ops, trades,
                   standaloneVars>>

\* create_order(type=stop_market, reduceOnly) answered
TpslSl(t) ==
    /\ task[t].pc = "t_sl"
    /\ \/ /\ stdOrders' = [stdOrders EXCEPT ![task[t].sym] = @ \cup {"SL"}]
          /\ task' = [task EXCEPT ![t].pc = "t_notify", ![t].slVia = "std"]
          /\ UNCHANGED <<portfolio, lastEntry>>
       \/ \* rejected with -4120: the stop is resubmitted through the algo channel
          /\ task' = [task EXCEPT ![t].pc = "t_slalgo",
                        ![t].slReq = SlAlgoRequest(task[t].signal, task[t].amount, task[t].sl)]
          /\ UNCHANGED <<stdOrders, portfolio, lastEntry>>
       \/ \* any other rejection is raised again
          /\ TpslRaises(t)
          /\ UNCHANGED stdOrders
    /\ UNCHANGED <<engineVars, settingsVars, now, pos, entriesOpen, algoOrders, daemon, sm, ch, op, ops, trades,
                   standaloneVars>>

\* the algo-channel stop request answered
TpslSlAlgo(t) ==
    /\ task[t].pc = "t_slalgo"
    /\ \/ /\ algoOrders' = [algoOrders EXCEPT ![task[t].sym] = @ \cup {task[t].slReq.type}]
          /\ task' = [task EXCEPT ![t].pc = "t_notify", ![t].slVia = "algo"]
          /\ UNCHANGED <<portfolio, lastEntry>>
       \/ /\ EndTask(t)
          /\ lastEntry' = Returned([task[t] EXCEPT !.slVia = "algofail"], "true",
                                   TpslExceptReturn)
          /\ portfolio' = RegisterPosition(portfolio, task[t].sym, task[t].signal)
          /\ UNCHANGED algoOrders
    /\ UNCHANGED <<engineVars, settingsVars, now, pos, entriesOpen, stdOrders, daemon, sm, ch, op, ops, trades,
                   standaloneVars>>

\* notifier.send_message answered (it swallows its own errors); the symbol is
\* marked active once more and both calls return True
TpslNotify(t) ==
    /\ task[t].pc = "t_notify"
    /\ active_positions' = MarkActive(active_positions, task[t].sym)
    /\ ReturnFromEntry(t, "true", "true")
    /\ UNCHANGED <<is_halted, pending_entries, loss_cooldown, settingsVars, now,
                   exchangeVars, daemon, sm, ch, op, ops, trades,
                   standaloneVars>>

\* ---- the exchange and the clock --------------------------------------------
\* an open exit order of the symbol fills and closes the position
ExchangeFill(s) ==
    /\ pos[s] > 0
    /\ \/ \E o \in stdOrders[s] :
            /\ stdOrders' = [stdOrders EXCEPT ![s] = @ \ {o}]
            /\ UNCHANGED algoOrders
       \/ \E o \in algoOrders[s] :
            /\ algoOrders' = [algoOrders EXCEPT ![s] = @ \ {o}]
            /\ UNCHANGED stdOrders
    /\ pos' = [pos EXCEPT ![s] = 0]
    /\ entriesOpen' = [entriesOpen EXCEPT ![s] = 0]
    /\ UNCHANGED <<engineVars, settingsVars, portfolio, now, taskVars, daemon, sm, ch, op, ops, trades,
                   standaloneVars>>

\* the account owner closes the position by hand, or it is liquidated
ExternalClose(s) ==
    /\ pos[s] > 0
    /\ pos' = [pos EXCEPT ![s] = 0]
    /\ entriesOpen' = [entriesOpen EXCEPT ![s] = 0]
    /\ UNCHANGED <<engineVars, settingsVars, portfolio, now, stdOrders, algoOrders,
                   taskVars, daemon, sm, ch, op, ops, trades,
                   standaloneVars>>

\* the account owner opens a position by hand
ExternalOpen(s) ==
    /\ pos[s] = 0
    /\ ops < MaxOps
    /\ ops' = ops + 1
    /\ pos' = [pos EXCEPT ![s] = 1]
    /\ UNCHANGED <<engineVars, settingsVars, portfolio, now, entriesOpen, stdOrders,
                   algoOrders, taskVars, daemon, sm, ch, op, trades,
                   standaloneVars>>

\* time passes
Tick(d) ==
    /\ now + d <= MaxTime
    /\ ops < MaxOps
    /\ ops' = ops + 1
    /\ now' = now + d
    /\ UNCHANGED <<engineVars, settingsVars, portfolio, exchangeVars, taskVars, daemon, sm,
                   ch, op, trades,
                   standaloneVars>>

\* a reduce-only market close of amt contracts
ReduceOnlyClose(p, s, amt) == [p EXCEPT ![s] = IF @ > amt THEN @ - amt ELSE 0]

\* the bot's entry count of a symbol starts again when the symbol is flat
EntriesAfterClose(e, p, s) == [e EXCEPT ![s] = IF p[s] = 0 THEN 0 ELSE @]

\* ---- state_machine_loop: check_active_positions_state -----------------------
\* the sync at the end of a state_machine_loop iteration
SyncPortfolio(pf, ap) == [s \in Symbols |-> IF s \in ap THEN pf[s] ELSE "none"]

\* check_active_positions_state has returned: check_state_mismatch sends fetch_balance
SmToMismatch == [IdleSm EXCEPT !.pc = "m_balance"]

\* check_active_positions_state returns (to check_state_mismatch) or raises (to
\* the except of state_machine_loop, which sleeps): what the log of the run shows
SmReturn(rec, failed) ==
    [SmToMismatch EXCEPT !.err = rec.err \/ failed, !.prevErr = rec.prevErr]
SmRaise(rec) == [IdleSm EXCEPT !.err = TRUE, !.prevErr = rec.prevErr]
SmSleep(rec) == [IdleSm EXCEPT !.err = rec.err, !.prevErr = rec.prevErr]
SmRun(rec) ==
    [IdleSm EXCEPT !.prevErr = rec.err,
                   !.closed0 = [s \in Symbols |-> trades[s]["CLOSED"]]]

\* the answers of fetch_my_trades(symbol, limit=5): the realized P&L of the own
\* trades of the symbol, oldest first
OwnTrades == UNION {[1..n -> PnLs] : n \in 0..MaxOwnTrades}

\* realized_pnl: 0.0 unless there are trades, then that of trades[-1]
FirstTradePnl(own) == IF own = <<>> THEN 0 ELSE own[1]
LastTradePnl(own) == IF own = <<>> THEN 0 ELSE own[Len(own)]

\* check_active_positions_state without its last loop
SmRemoveNothing(rec, ap) ==
    /\ active_positions' = ap
    /\ sm' = SmReturn(rec, FALSE)

\* the last loop of check_active_positions_state: del active_positions[sym] for
\* every symbol recorded as closed; a symbol another task has removed meanwhile
\* raises KeyError, which ends the iteration in state_machine_loop's except
SmRemove(rec, ap) ==
    IF rec.toRemove \subseteq ap
    THEN /\ active_positions' = ap \ rec.toRemove
         /\ sm' = SmReturn(rec, FALSE)
    ELSE \E R \in SUBSET (rec.toRemove \cap ap) :
            /\ active_positions' = ap \ R
            /\ sm' = SmRaise(rec)

\* the loop over list(active_positions.keys()): the next tracked symbol whose
\* contracts are zero in the snapshot gets its orders cancelled
SmClosedLoop(rec, ap) ==
    IF rec.todo = {}
    THEN SmRemove(rec, ap)
    ELSE \E s \in rec.todo :
            /\ sm' = [rec EXCEPT !.todo = @ \ {s}, !.cur = s, !.pc = "r_cancel"]
            /\ active_positions' = ap

\* the loop over the fetched positions: a live position that is not tracked is
\* marked active, then its MANUAL record is committed
SmManualLoop(rec, ap) ==
    LET cands == rec.todo \ ap
    IN  IF cands = {}
        THEN SmClosedLoop([rec EXCEPT !.todo = ap \ rec.snap], ap)
        ELSE \E s \in cands :
                /\ sm' = [rec EXCEPT !.todo = @ \ {s}, !.cur = s, !.pc = "r_mdb"]
                /\ active_positions' = MarkActive(ap, s)

\* dry run: every tracked symbol is recorded as closed
SmDryLoop(rec, ap) ==
    IF rec.todo = {}
    THEN SmRemove(rec, ap)
    ELSE \E s \in rec.todo :
            /\ sm' = [rec EXCEPT !.todo = @ \ {s}, !.cur = s, !.pc = "d_db"]
            /\ active_positions' = ap

\* an iteration of state_machine_loop starts: check_active_positions_state up
\* to its first await
SmBegin ==
    /\ sm.pc = "sleep"
    /\ IF DRY_RUN
       THEN IF active_positions = {}
            THEN sm' = SmReturn(SmRun(sm), FALSE) /\ UNCHANGED active_positions
            ELSE SmDryLoop([SmRun(sm) EXCEPT !.todo = active_positions], active_positions)
       ELSE sm' = [SmRun(sm) EXCEPT !.pc = "r_fetch"] /\ UNCHANGED active_positions
    /\ UNCHANGED <<is_halted, pending_entries, loss_cooldown, settingsVars, portfolio,
                   now, exchangeVars, taskVars, daemon, ch, op, trades,
                   standaloneVars>>

\* an iteration counted against the budget of operations
SmStart == CanStart /\ ops' = ops + 1 /\ SmBegin

\* an iteration of the endless loop, not counted (asyncio.sleep(5) always ends),
\* explored when no other coroutine is between two awaits
SmTick == InFlight = 0 /\ SmBegin /\ UNCHANGED ops

\* the exchange serves the fetch_positions request: the answer it sends holds
\* the positions of that moment
SmSnapshot ==
    /\ sm.pc = "r_fetch"
    /\ sm' = [sm EXCEPT !.pc = "r_answer", !.snap = {s \in Symbols : pos[s] > 0}]
    /\ UNCHANGED <<engineVars, settingsVars, portfolio, now, exchangeVars, taskVars, daemon,
                   ch, op, ops, trades,
                   standaloneVars>>

\* fetch_positions answered: the tick goes on with the positions of the answer
SmFetched ==
    /\ sm.pc = "r_answer"
    /\ \/ sm' = SmReturn(sm, TRUE) /\ UNCHANGED active_positions
       \/ SmManualLoop([sm EXCEPT !.todo = sm.snap], active_positions)
    /\ UNCHANGED <<is_halted, pending_entries, loss_cooldown, settingsVars, portfolio,
                   now, exchangeVars, taskVars, daemon, ch, op, ops, trades,
                   standaloneVars>>

\* the commit of the MANUAL record answered
SmManualDb ==
    /\ sm.pc = "r_mdb"
    /\ \/ sm' = SmReturn(sm, TRUE) /\ UNCHANGED trades
       \/ /\ trades' = AddTrade(trades, sm.cur, "MANUAL")
          /\ sm' = [sm EXCEPT !.pc = "r_mnotify"]
    /\ UNCHANGED <<engineVars, settingsVars, portfolio, now, exchangeVars, taskVars, daemon,
                   ch, op, ops,
                   standaloneVars>>

\* the notification of the manual position answered
SmManualNotify ==
    /\ sm.pc = "r_mnotify"
    /\ SmManualLoop(sm, active_positions)
    /\ UNCHANGED <<is_halted, pending_entries, loss_cooldown, settingsVars, portfolio,
                   now, exchangeVars, taskVars, daemon, ch, op, ops, trades,
                   standaloneVars>>

\* cancel_all_orders answered (a failure is ignored); the algo orders are listed
SmCancel ==
    /\ sm.pc = "r_cancel"
    /\ \/ /\ stdOrders' = [stdOrders EXCEPT ![sm.cur] = {}]
          /\ sm' = [sm EXCEPT !.pc = "r_algoget"]
       \/ /\ UNCHANGED stdOrders
          /\ sm' = [sm EXCEPT !.pc = "r_algoget", !.err = TRUE]
    /\ UNCHANGED <<engineVars, settingsVars, portfolio, now, pos, entriesOpen,
                   algoOrders, taskVars, daemon, ch, op, ops, trades,
                   standaloneVars>>

\* openAlgoOrders answered
SmAlgoGet ==
    /\ sm.pc = "r_algoget"
    /\ \/ sm' = [sm EXCEPT !.pc = "r_trades", !.err = TRUE]
       \/ sm' = [sm EXCEPT !.algoTodo = algoOrders[sm.cur],
                           !.pc = IF algoOrders[sm.cur] = {} THEN "r_trades" ELSE "r_algodel"]
    /\ UNCHANGED <<engineVars, settingsVars, portfolio, now, exchangeVars, taskVars, daemon,
                   ch, op, ops, trades,
                   standaloneVars>>

\* the DELETE of one listed algo order answered
SmAlgoDel ==
    /\ sm.pc = "r_algodel"
    /\ \/ \E o \in sm.algoTodo :
            /\ algoOrders' = [algoOrders EXCEPT ![sm.cur] = @ \ {o}]
            /\ sm' = [sm EXCEPT !.algoTodo = @ \ {o},
                                !.pc = IF sm.algoTodo = {o} THEN "r_trades" ELSE "r_algodel"]
       \/ /\ sm' = [sm EXCEPT !.algoTodo = {}, !.pc = "r_trades", !.err = TRUE]
          /\ UNCHANGED algoOrders
    /\ UNCHANGED <<engineVars, settingsVars, portfolio, now, pos, entriesOpen,
                   stdOrders, taskVars, daemon, ch, op, ops, trades,
                   standaloneVars>>

\* fetch_my_trades answered: the realized P&L of the last own trade
SmTrades ==
    /\ sm.pc = "r_trades"
    /\ \/ SmClosedLoop([sm EXCEPT !.err = TRUE], active_positions)
       \/ \E own \in OwnTrades :
            /\ sm' = [sm EXCEPT !.pnl = LastTradePnl(own), !.own = own, !.pc = "r_db"]
            /\ UNCHANGED active_positions
    /\ UNCHANGED <<is_halted, pending_entries, loss_cooldown, settingsVars, portfolio,
                   now, exchangeVars, taskVars, daemon, ch, op, ops, trades,
                   standaloneVars>>

\* the commit of the CLOSED record answered
SmClosedDb ==
    /\ sm.pc = "r_db"
    /\ \/ /\ SmClosedLoop([sm EXCEPT !.pnl = 0, !.own = <<>>, !.err = TRUE],
                          active_positions)
          /\ UNCHANGED trades
       \/ /\ trades' = AddTrade(trades, sm.cur, "CLOSED")
          /\ sm' = [sm EXCEPT !.pc = "r_notify", !.own = <<>>]
          /\ UNCHANGED active_positions
    /\ UNCHANGED <<is_halted, pending_entries, loss_cooldown, settingsVars, portfolio,
                   now, exchangeVars, taskVars, daemon, ch, op, ops,
                   standaloneVars>>

\* the cooldown armed by a close with negative realized P&L
ArmCooldown(lc, s, pnl, t) ==
    IF pnl < 0 THEN [lc EXCEPT ![s] = t + LOSS_COOLDOWN_MINUTES] ELSE lc

\* the notification of the close answered: the symbol is queued for removal
SmClosedNotify ==
    /\ sm.pc = "r_notify"
    /\ loss_cooldown' = ArmCooldown(loss_cooldown, sm.cur, sm.pnl, now)
    /\ SmClosedLoop([sm EXCEPT !.toRemove = @ \cup {sm.cur}, !.pnl = 0], active_positions)
    /\ UNCHANGED <<is_halted, pending_entries, settingsVars, portfolio, now,
                   exchangeVars, taskVars, daemon, ch, op, ops, trades,
                   standaloneVars>>

\* dry run: the commit of the CLOSED record answered; a failure is raised into
\* state_machine_loop's except
SmDryDb ==
    /\ sm.pc = "d_db"
    /\ \/ sm' = SmRaise(sm) /\ UNCHANGED <<active_positions, trades>>
       \/ /\ trades' = AddTrade(trades, sm.cur, "CLOSED")
          /\ SmDryLoop([sm EXCEPT !.toRemove = @ \cup {sm.cur}], active_positions)
    /\ UNCHANGED <<is_halted, pending_entries, loss_cooldown, settingsVars, portfolio,
                   now, exchangeVars, taskVars, daemon, ch, op, ops,
                   standaloneVars>>

\* ---- state_machine_loop: check_state_mismatch -------------------------------
\* what check_state_mismatch does to is_halted with the balance it read: nothing
MismatchHalt(halted, balance) == halted

\* fetch_balance answered; in dry run the check ends here and the portfolio is synced
SmBalance ==
    /\ sm.pc = "m_balance"
    /\ \/ /\ sm' = SmSleep(sm)
          /\ UNCHANGED is_halted
       \/ \E b \in Capitals :
            /\ is_halted' = MismatchHalt(is_halted, b)
            /\ sm' = IF DRY_RUN THEN SmSleep(sm)
                     ELSE [SmSleep(sm) EXCEPT !.bal = b, !.pc = "m_pos"]
    /\ portfolio' = IF sm'.pc = "sleep" THEN SyncPortfolio(portfolio, active_positions)
                    ELSE portfolio
    /\ UNCHANGED <<active_positions, pending_entries, loss_cooldown, settingsVars,
                   now, exchangeVars, taskVars, daemon, ch, op, ops, trades,
                   standaloneVars>>

\* fetch_positions of check_state_mismatch answered; the portfolio is synced
SmMismatchPos ==
    /\ sm.pc = "m_pos"
    /\ sm' = SmSleep(sm)
    /\ portfolio' = SyncPortfolio(portfolio, active_positions)
    /\ UNCHANGED <<engineVars, settingsVars, now, exchangeVars, taskVars, daemon, ch, op, ops, trades,
                   standaloneVars>>

\* ---- _time_exit_daemon ------------------------------------------------------
\* the step of the daemon that follows the cancellation of the algo orders
DaemonAfterAlgo == IF DRY_RUN THEN "x_db" ELSE "x_close"

\* asyncio.sleep(wait_minutes * 60) is over: the daemon acts only on a symbol
\* that is still tracked, and sends cancel_all_orders
DaemonWake(t) ==
    /\ daemon[t].pc = "sleep"
    /\ now >= daemon[t].due
    /\ InFlight < MaxInFlight
    /\ daemon' = [daemon EXCEPT ![t] = IF daemon[t].sym \in active_positions
                                       THEN [@ EXCEPT !.pc = "x_cancel"]
                                       ELSE IdleDaemon]
    /\ UNCHANGED <<engineVars, settingsVars, portfolio, now, exchangeVars, taskVars, sm,
                   ch, op, ops, trades,
                   standaloneVars>>

\* cancel_all_orders answered; an error ends the daemon in its except
DaemonCancel(t) ==
    /\ daemon[t].pc = "x_cancel"
    /\ \/ /\ stdOrders' = [stdOrders EXCEPT ![daemon[t].sym] = {}]
          /\ daemon' = [daemon EXCEPT ![t].pc = "x_algoget"]
       \/ /\ daemon' = [daemon EXCEPT ![t] = IdleDaemon]
          /\ UNCHANGED stdOrders
    /\ UNCHANGED <<engineVars, settingsVars, portfolio, now, pos, entriesOpen,
                   algoOrders, taskVars, sm, ch, op, ops, trades,
                   standaloneVars>>

\* openAlgoOrders answered
DaemonAlgoGet(t) ==
    /\ daemon[t].pc = "x_algoget"
    /\ \/ daemon' = [daemon EXCEPT ![t].algoTodo = algoOrders[daemon[t].sym],
                                   ![t].pc = IF algoOrders[daemon[t].sym] = {}
                                             THEN DaemonAfterAlgo ELSE "x_algodel"]
       \/ daemon' = [daemon EXCEPT ![t] = IdleDaemon]
    /\ UNCHANGED <<engineVars, settingsVars, portfolio, now, exchangeVars, taskVars, sm,
                   ch, op, ops, trades,
                   standaloneVars>>

\* the DELETE of one listed algo order answered
DaemonAlgoDel(t) ==
    /\ daemon[t].pc = "x_algodel"
    /\ \/ \E o \in daemon[t].algoTodo :
            /\ algoOrders' = [algoOrders EXCEPT ![daemon[t].sym] = @ \ {o}]
            /\ daemon' = [daemon EXCEPT ![t].algoTodo = @ \ {o},
                                        ![t].pc = IF daemon[t].algoTodo = {o}
                                                  THEN DaemonAfterAlgo ELSE "x_algodel"]
       \/ /\ daemon' = [daemon EXCEPT ![t] = IdleDaemon]
          /\ UNCHANGED algoOrders
    /\ UNCHANGED <<engineVars, settingsVars, portfolio, now, pos, entriesOpen,
                   stdOrders, taskVars, sm, ch, op, ops, trades,
                   standaloneVars>>

\* live: the reduce-only market close of the entry's amount answered; the
\* exchange rejects it when the symbol is flat
DaemonClose(t) ==
    /\ daemon[t].pc = "x_close"
    /\ LET s == daemon[t].sym
       IN  \/ /\ pos[s] > 0
              /\ pos' = ReduceOnlyClose(pos, s, 1)
              /\ entriesOpen' = EntriesAfterClose(entriesOpen, pos', s)
              /\ \E p \in PnLs : daemon' = [daemon EXCEPT ![t].pc = "x_db", ![t].pnl = p]
           \/ /\ daemon' = [daemon EXCEPT ![t] = IdleDaemon]
              /\ UNCHANGED <<pos, entriesOpen>>
    /\ UNCHANGED <<engineVars, settingsVars, portfolio, now, stdOrders, algoOrders,
                   taskVars, sm, ch, op, ops, trades,
                   standaloneVars>>

\* the commit of the TIME_EXIT record answered
DaemonDb(t) ==
    /\ daemon[t].pc = "x_db"
    /\ \/ /\ trades' = AddTrade(trades, daemon[t].sym, "TIME_EXIT")
          /\ daemon' = [daemon EXCEPT ![t].pc = "x_notify"]
       \/ daemon' = [daemon EXCEPT ![t] = IdleDaemon] /\ UNCHANGED trades
    /\ UNCHANGED <<engineVars, settingsVars, portfolio, now, exchangeVars, taskVars, sm,
                   ch, op, ops,
                   standaloneVars>>

\* the notification answered: del active_positions[symbol] (a KeyError is caught)
DaemonNotify(t) ==
    /\ daemon[t].pc = "x_notify"
    /\ active_positions' = active_positions \ {daemon[t].sym}
    /\ daemon' = [daemon EXCEPT ![t] = IdleDaemon]
    /\ UNCHANGED <<is_halted, pending_entries, loss_cooldown, settingsVars, portfolio,
                   now, exchangeVars, taskVars, sm, ch, op, ops, trades,
                   standaloneVars>>

\* ---- chandelier_monitoring_loop ---------------------------------------------
\* the loop over tracked_symbols runs without suspending until a triggered exit
\* of a symbol that is in active_positions awaits cancel_all_orders (live only).
\* A triggered exit of a symbol that is not in active_positions closes its
\* portfolio entry; in the active branch the notifier message reads the
\* undefined name current_price, so that branch never reaches the removals.
ChLoop(todo) ==
    LET tracked == {s \in todo : portfolio[s] # "none"}
        untracked == tracked \ active_positions
    IN  \/ \E C \in SUBSET untracked :
             /\ portfolio' = [s \in Symbols |-> IF s \in C THEN "none" ELSE portfolio[s]]
             /\ ch' = IdleCh
        \/ /\ ~DRY_RUN
           /\ \E s \in tracked \cap active_positions :
              \E P \in SUBSET (todo \ {s}) :
              \E C \in SUBSET (P \cap untracked) :
                /\ portfolio' = [x \in Symbols |-> IF x \in C THEN "none" ELSE portfolio[x]]
                /\ ch' = [IdleCh EXCEPT !.pc = "c_cancel", !.cur = s,
                                         !.todo = todo \ (P \cup {s})]

\* asyncio.sleep(30) is over: tracked_symbols = list(portfolio.positions.keys())
ChBegin ==
    /\ ch.pc = "sleep"
    /\ ChLoop({s \in Symbols : portfolio[s] # "none"})
    /\ UNCHANGED <<engineVars, settingsVars, now, exchangeVars, taskVars, daemon, sm, op, trades,
                   standaloneVars>>

\* an iteration counted against the budget of operations
ChStart == CanStart /\ ops' = ops + 1 /\ ChBegin

\* an iteration of the endless loop, not counted, explored when no other
\* coroutine is between two awaits
ChTick == InFlight = 0 /\ ChBegin /\ UNCHANGED ops

\* cancel_all_orders answered (a failure is ignored); fetch_positions is sent
ChCancel ==
    /\ ch.pc = "c_cancel"
    /\ \/ stdOrders' = [stdOrders EXCEPT ![ch.cur] = {}]
       \/ UNCHANGED stdOrders
    /\ ch' = [ch EXCEPT !.pc = "c_pos"]
    /\ UNCHANGED <<engineVars, settingsVars, portfolio, now, pos, entriesOpen,
                   algoOrders, taskVars, daemon, sm, op, ops, trades,
                   standaloneVars>>

\* fetch_positions answered: with contracts the reduce-only close is sent
ChPositions ==
    /\ ch.pc = "c_pos"
    /\ \/ /\ pos[ch.cur] > 0
          /\ ch' = [ch EXCEPT !.pc = "c_close", !.amt = pos[ch.cur]]
          /\ UNCHANGED portfolio
       \/ ChLoop(ch.todo)
    /\ UNCHANGED <<engineVars, settingsVars, now, exchangeVars, taskVars, daemon, sm, op, ops, trades,
                   standaloneVars>>

\* the reduce-only market close answered; the loop goes on with the next symbol
ChClose ==
    /\ ch.pc = "c_close"
    /\ \/ /\ pos[ch.cur] > 0
          /\ pos' = ReduceOnlyClose(pos, ch.cur, ch.amt)
          /\ entriesOpen' = EntriesAfterClose(entriesOpen, pos', ch.cur)
       \/ UNCHANGED <<pos, entriesOpen>>
    /\ ChLoop(ch.todo)
    /\ UNCHANGED <<engineVars, settingsVars, now, stdOrders, algoOrders, taskVars, daemon,
                   sm, op, ops, trades,
                   standaloneVars>>

\* ---- operator commands (telegram_commands.py) -------------------------------
\* the step of panic_cmd that follows the cancellations of one symbol
PanicNext(rec) ==
    IF rec.todo = {}
    THEN op' = [IdleOp EXCEPT !.pc = "p_pos"]
    ELSE \E s \in rec.todo :
            op' = [IdleOp EXCEPT !.pc = "p_cancel", !.cur = s, !.todo = rec.todo \ {s}]

\* the loop of panic_cmd over the fetched positions: every position with
\* contracts gets a reduce-only market close, in dry run none is sent
PanicCloseLoop(rec) ==
    IF DRY_RUN \/ rec.todo = {}
    THEN op' = IdleOp
    ELSE \E s \in rec.todo :
            op' = [rec EXCEPT !.pc = "p_close", !.cur = s, !.todo = @ \ {s}]

\* /panic from the admin chat: the first reply is sent
PanicCmd ==
    /\ op.pc = "idle"
    /\ CanStart
    /\ ops' = ops + 1
    /\ op' = [IdleOp EXCEPT !.pc = "p_reply"]
    /\ UNCHANGED <<engineVars, settingsVars, portfolio, now, exchangeVars, taskVars, daemon,
                   sm, ch, trades,
                   standaloneVars>>

\* the reply answered: IS_PAUSED is set and the targets are the tracked symbols
PanicReplied ==
    /\ op.pc = "p_reply"
    /\ \/ /\ IS_PAUSED' = TRUE
          /\ panicked' = TRUE
          /\ PanicNext([IdleOp EXCEPT !.todo = active_positions \cup pending_entries])
       \/ /\ op' = IdleOp
          /\ UNCHANGED <<IS_PAUSED, panicked>>
    /\ UNCHANGED <<engineVars, DRY_RUN, portfolio, now, exchangeVars, taskVars, daemon, sm,
                   ch, ops, trades,
                   standaloneVars>>

\* cancel_all_orders of a target answered; an error skips to the next target
PanicCancel ==
    /\ op.pc = "p_cancel"
    /\ \/ /\ stdOrders' = [stdOrders EXCEPT ![op.cur] = {}]
          /\ op' = [op EXCEPT !.pc = "p_algoget"]
       \/ /\ PanicNext(op)
          /\ UNCHANGED stdOrders
    /\ UNCHANGED <<engineVars, settingsVars, portfolio, now, pos, entriesOpen,
                   algoOrders, taskVars, daemon, sm, ch, ops, trades,
                   standaloneVars>>

\* openAlgoOrders of a target answered
PanicAlgoGet ==
    /\ op.pc = "p_algoget"
    /\ \/ /\ algoOrders[op.cur] # {}
          /\ op' = [op EXCEPT !.pc = "p_algodel", !.algoTodo = algoOrders[op.cur]]
       \/ PanicNext(op)
    /\ UNCHANGED <<engineVars, settingsVars, portfolio, now, exchangeVars, taskVars, daemon,
                   sm, ch, ops, trades,
                   standaloneVars>>

\* the DELETE of one listed algo order answered
PanicAlgoDel ==
    /\ op.pc = "p_algodel"
    /\ \/ \E o \in op.algoTodo :
            /\ algoOrders' = [algoOrders EXCEPT ![op.cur] = @ \ {o}]
            /\ IF op.algoTodo = {o}
               THEN PanicNext(op)
               ELSE op' = [op EXCEPT !.algoTodo = @ \ {o}]
       \/ /\ PanicNext(op)
          /\ UNCHANGED algoOrders
    /\ UNCHANGED <<engineVars, settingsVars, portfolio, now, pos, entriesOpen,
                   stdOrders, taskVars, daemon, sm, ch, ops, trades,
                   standaloneVars>>

\* fetch_positions answered
PanicPositions ==
    /\ op.pc = "p_pos"
    /\ \/ PanicCloseLoop([IdleOp EXCEPT !.todo = {s \in Symbols : pos[s] > 0},
                                        !.amts = pos])
       \/ op' = IdleOp
    /\ UNCHANGED <<engineVars, settingsVars, portfolio, now, exchangeVars, taskVars, daemon,
                   sm, ch, ops, trades,
                   standaloneVars>>

\* the reduce-only market close of one position answered; an error ends the loop
PanicClose ==
    /\ op.pc = "p_close"
    /\ \/ /\ pos[op.cur] > 0
          /\ pos' = ReduceOnlyClose(pos, op.cur, op.amts[op.cur])
          /\ entriesOpen' = EntriesAfterClose(entriesOpen, pos', op.cur)
          /\ PanicCloseLoop(op)
       \/ /\ op' = IdleOp
          /\ UNCHANGED <<pos, entriesOpen>>
    /\ UNCHANGED <<engineVars, settingsVars, portfolio, now, stdOrders, algoOrders,
                   taskVars, daemon, sm, ch, ops, trades,
                   standaloneVars>>

\* /pause from the admin chat
PauseCmd ==
    /\ ops < MaxOps
    /\ ops' = ops + 1
    /\ IS_PAUSED' = TRUE
    /\ UNCHANGED <<engineVars, DRY_RUN, panicked, portfolio, now, exchangeVars, taskVars,
                   daemon, sm, ch, op, trades,
                   standaloneVars>>

\* /resume from the admin chat
ResumeCmd ==
    /\ ops < MaxOps
    /\ ops' = ops + 1
    /\ IS_PAUSED' = FALSE
    /\ panicked' = FALSE
    /\ UNCHANGED <<engineVars, DRY_RUN, portfolio, now, exchangeVars, taskVars, daemon, sm,
                   ch, op, trades,
                   standaloneVars>>

\* ---- the system -------------------------------------------------------------
HandlerStep(t) ==
    \/ KlineStart(t) \/ KlineBalance(t) \/ EntrySetup(t) \/ EntryCreate(t)
    \/ EntryFetch(t) \/ EntryTrades(t) \/ EntryTicker(t)
    \/ TpslDb(t) \/ TpslTp(t) \/ TpslTpm(t) \/ TpslTpAlgo(t) \/ TpslSl(t)
    \/ TpslSlAlgo(t) \/ TpslNotify(t)

DaemonStep(t) ==
    \/ DaemonWake(t) \/ DaemonCancel(t) \/ DaemonAlgoGet(t) \/ DaemonAlgoDel(t)
    \/ DaemonClose(t) \/ DaemonDb(t) \/ DaemonNotify(t)

SmStep ==
    \/ SmStart \/ SmSnapshot \/ SmFetched \/ SmManualDb \/ SmManualNotify \/ SmCancel \/ SmAlgoGet
    \/ SmAlgoDel \/ SmTrades \/ SmClosedDb \/ SmClosedNotify \/ SmDryDb \/ SmBalance
    \/ SmMismatchPos

ChStep == ChStart \/ ChCancel \/ ChPositions \/ ChClose

OperatorStep ==
    \/ PanicCmd \/ PanicReplied \/ PanicCancel \/ PanicAlgoGet \/ PanicAlgoDel
    \/ PanicPositions \/ PanicClose \/ PauseCmd \/ ResumeCmd

Next ==
    \/ \E t \in Tasks, s \in Symbols : SpawnHandler(t, s)
    \/ \E t \in Tasks : HandlerStep(t)
    \/ \E t \in Tasks : DaemonStep(t)
    \/ SmStep
    \/ ChStep
    \/ OperatorStep
    \/ \E s \in Symbols : ExchangeFill(s)
    \/ \E s \in Symbols : ExternalClose(s)
    \/ \E s \in Symbols : ExternalOpen(s)
    \/ \E d \in TickSteps : Tick(d)

Spec == Init /\ [][Next]_vars

SpecHalted == InitHalted /\ [][Next]_vars

\* ---- state_machine_loop on its own -------------------------------------------
\* the engine and the exchange in any state a run of the bot can leave them in:
\* symbols tracked or not, positions open or flat, exit orders left on either
\* channel; then state_machine_loop alone, with nothing changing on the exchange
AlgoTypes == {"TAKE_PROFIT_MARKET", "STOP_MARKET"}
StdRoles == {"TP", "SL"}

InitRecon ==
    /\ is_halted = FALSE
    /\ active_positions \in SUBSET Symbols
    /\ pending_entries = NewPendingEntries
    /\ loss_cooldown = [s \in Symbols |-> 0]
    /\ pos \in [Symbols -> 0..MaxPos]
    /\ entriesOpen = [s \in Symbols |-> 0]
    /\ stdOrders \in [Symbols -> SUBSET StdRoles]
    /\ algoOrders \in [Symbols -> SUBSET AlgoTypes]
    /\ InitTasks

NextRecon == SmStep

SpecRecon == InitRecon /\ [][NextRecon]_vars

\* ---- the loss cooldown: state_machine_loop and the handlers ---------------------
\* the bot with tracked positions that the exchange has closed (a take-profit
\* or a stop filled, the other leg may be left), then the handlers, their
\* daemons, state_machine_loop and the clock
InitCooldown ==
    /\ is_halted = FALSE
    /\ active_positions \in SUBSET Symbols
    /\ pending_entries = NewPendingEntries
    /\ loss_cooldown = [s \in Symbols |-> 0]
    /\ pos = [s \in Symbols |-> 0]
    /\ entriesOpen = [s \in Symbols |-> 0]
    /\ stdOrders \in [Symbols -> SUBSET StdRoles]
    /\ algoOrders = [s \in Symbols |-> {}]
    /\ InitTasks

NextCooldown ==
    \/ \E t \in Tasks, s \in Symbols : SpawnHandler(t, s)
    \/ \E t \in Tasks : HandlerStep(t)
    \/ \E t \in Tasks : DaemonStep(t)
    \/ SmStep
    \/ \E d \in TickSteps : Tick(d)

SpecCooldown == InitCooldown /\ [][NextCooldown]_vars

\* ---- sync_state_from_exchange, the startup sweep ------------------------------
\* an open order left by an earlier run: its channel, its symbol and its kind.
\* The exit legs the bot places are reduce-only on both channels; an entry order
\* that was left resting is not.
StdEntry == "ENTRY"
AlgoEntry == "CONDITIONAL_ENTRY"
Order(chan, s, k) == [chan |-> chan, sym |-> s, kind |-> k]

\* mutant: the reduce-only flag alone decides
SyncKeepsReduceOnly(ap, o) == o.kind \in StdRoles \cup AlgoTypes

\* is_reduce_only as the sweep reads it, and its rule: an order survives when
\* its symbol is tracked and it is reduce-only
IsReduceOnly(o) == o.kind \in StdRoles \cup AlgoTypes
SyncKeeps(ap, o) == o.sym \in ap /\ IsReduceOnly(o)

\* what fetch_open_orders() and GET openAlgoOrders answer
OpenStd == UNION {{Order("std", s, k) : k \in stdOrders[s]} : s \in Symbols}
OpenAlgo == UNION {{Order("algo", s, k) : k \in algoOrders[s]} : s \in Symbols}

syncFrame == <<is_halted, pending_entries, loss_cooldown, settingsVars, portfolio, now,
               pos, entriesOpen, taskVars, daemon, sm, ch, op, ops, trades, cx,
               lastCancel, stops, pureVars>>

\* the call of main: in dry run the function returns at once, otherwise it
\* sends fetch_positions
SyncStart ==
    /\ sync.pc = "start"
    /\ sync' = [sync EXCEPT !.pc = IF DRY_RUN THEN "done" ELSE "s_fetch"]
    /\ UNCHANGED <<active_positions, stdOrders, algoOrders, syncFrame>>

\* fetch_positions answered: every symbol with contracts is tracked; an error
\* goes to the outer except, which ends the function
SyncPositions ==
    /\ sync.pc = "s_fetch"
    /\ \/ /\ sync' = [sync EXCEPT !.pc = "done", !.err = TRUE]
          /\ UNCHANGED active_positions
       \/ /\ active_positions' = active_positions \cup {s \in Symbols : pos[s] > 0}
          /\ sync' = [sync EXCEPT !.pc = "s_orders"]
    /\ UNCHANGED <<stdOrders, algoOrders, syncFrame>>

\* fetch_open_orders answered: the loop runs up to its first cancel_order; with
\* nothing to cancel, or after an error, the algo orders are listed
SyncOpenOrders ==
    /\ sync.pc = "s_orders"
    /\ \/ sync' = [sync EXCEPT !.pc = "s_algoget", !.err = TRUE]
       \/ LET stale == {o \in OpenStd : ~SyncKeeps(active_positions, o)}
          IN  sync' = [sync EXCEPT !.found = @ \cup OpenStd,
                                   !.stale = @ \cup stale,
                                   !.todo = stale,
                                   !.pc = IF stale = {} THEN "s_algoget" ELSE "s_cancel"]
    /\ UNCHANGED <<active_positions, stdOrders, algoOrders, syncFrame>>

\* cancel_order of the next stale order answered; an error leaves the loop
\* through the except that wraps it
SyncCancel ==
    /\ sync.pc = "s_cancel"
    /\ \E o \in sync.todo :
          \/ /\ stdOrders' = [stdOrders EXCEPT ![o.sym] = @ \ {o.kind}]
             /\ sync' = [sync EXCEPT !.todo = @ \ {o}, !.tried = @ \cup {o},
                                      !.pc = IF sync.todo = {o} THEN "s_algoget"
                                             ELSE "s_cancel"]
          \/ /\ UNCHANGED stdOrders
             /\ sync' = [sync EXCEPT !.todo = {}, !.tried = @ \cup {o},
                                      !.pc = "s_algoget", !.err = TRUE]
    /\ UNCHANGED <<active_positions, algoOrders, syncFrame>>

\* GET openAlgoOrders answered: the loop runs up to its first DELETE
SyncAlgoGet ==
    /\ sync.pc = "s_algoget"
    /\ \/ sync' = [sync EXCEPT !.pc = "done", !.err = TRUE]
       \/ LET stale == {o \in OpenAlgo : ~SyncKeeps(active_positions, o)}
          IN  sync' = [sync EXCEPT !.found = @ \cup OpenAlgo,
                                   !.stale = @ \cup stale,
                                   !.todo = stale,
                                   !.pc = IF stale = {} THEN "done" ELSE "s_algodel"]
    /\ UNCHANGED <<active_positions, stdOrders, algoOrders, syncFrame>>

\* DELETE algoOrder of the next stale algo order answered
SyncAlgoDel ==
    /\ sync.pc = "s_algodel"
    /\ \E o \in sync.todo :
          \/ /\ algoOrders' = [algoOrders EXCEPT ![o.sym] = @ \ {o.kind}]
             /\ sync' = [sync EXCEPT !.todo = @ \ {o}, !.tried = @ \cup {o},
                                      !.pc = IF sync.todo = {o} THEN "done"
                                             ELSE "s_algodel"]
          \/ /\ UNCHANGED algoOrders
             /\ sync' = [sync EXCEPT !.todo = {}, !.tried = @ \cup {o},
                                      !.pc = "done", !.err = TRUE]
    /\ UNCHANGED <<active_positions, stdOrders, syncFrame>>

\* the engine as constructed, and on the exchange whatever an earlier run left
InitSync ==
    /\ is_halted = FALSE
    /\ InitEngine
    /\ pos \in [Symbols -> 0..MaxPos]
    /\ entriesOpen = [s \in Symbols |-> 0]
    /\ stdOrders \in [Symbols -> SUBSET (StdRoles \cup {StdEntry})]
    /\ algoOrders \in [Symbols -> SUBSET (AlgoTypes \cup {AlgoEntry})]
    /\ InitTasks

NextSync ==
    \/ SyncStart \/ SyncPositions \/ SyncOpenOrders \/ SyncCancel \/ SyncAlgoGet
    \/ SyncAlgoDel

SpecSync == InitSync /\ [][NextSync]_vars

\* ---- PortfolioState: the trailing (chandelier) stop ---------------------------
\* entry prices, candle highs and lows, and ATR values
BarPrices == {92, 96, 100, 104, 108}
Atrs == {1, 2, 3, 4}

Max(a, b) == IF a >= b THEN a ELSE b
Min(a, b) == IF a <= b THEN a ELSE b

\* mutant: the stop follows the extreme without the clamp
UnclampedStop(direction, prev_stop, new_stop) == new_stop

\* pos["chandelier_stop"] = max(new_stop, prev_stop) for LONG, min for SHORT
ClampedStop(direction, prev_stop, new_stop) ==
    IF direction = "LONG" THEN Max(new_stop, prev_stop) ELSE Min(new_stop, prev_stop)

\* the entry register_position stores
RegisteredStop(direction, entry_price, atr) ==
    [extreme |-> entry_price,
     stop |-> IF direction = "LONG" THEN entry_price - atr * CHANDELIER_MULT
              ELSE entry_price + atr * CHANDELIER_MULT,
     atr |-> atr, call |-> "register_position"]

\* mutant: the extreme follows the last candle
LastExtreme(direction, extreme, current_high, current_low) ==
    IF direction = "LONG" THEN current_high ELSE current_low

\* pos["extreme"] after the comparison with the candle
RunningExtreme(direction, extreme, current_high, current_low) ==
    IF direction = "LONG"
    THEN (IF current_high > extreme THEN current_high ELSE extreme)
    ELSE (IF current_low < extreme THEN current_low ELSE extreme)

\* the entry update_chandelier leaves
UpdatedStop(direction, p, current_high, current_low, current_atr) ==
    LET extreme == RunningExtreme(direction, p.extreme, current_high, current_low)
        new_stop == IF direction = "LONG" THEN extreme - current_atr * CHANDELIER_MULT
                    ELSE extreme + current_atr * CHANDELIER_MULT
    IN  [extreme |-> extreme, stop |-> ClampedStop(direction, p.stop, new_stop),
         atr |-> current_atr, call |-> "update_chandelier"]

loopVars == <<engineVars, settingsVars, now, exchangeVars, taskVars, daemon, sm,
              ch, op, ops, trades, cx, lastCancel, sync>>
trailFrame == <<loopVars, conc, dec, siz, bk, mp, tg, kl>>
concFrame == <<loopVars, portfolio, stops, trail, dec, siz, bk, mp, tg, kl>>
decFrame == <<loopVars, portfolio, stops, trail, conc, siz, bk, mp, tg, kl>>
sizFrame == <<loopVars, portfolio, stops, trail, conc, dec, bk, mp, tg, kl>>
bkFrame == <<loopVars, portfolio, stops, trail, conc, dec, siz, mp, tg, kl>>
mpFrame == <<loopVars, portfolio, stops, trail, conc, dec, siz, bk, tg, kl>>
tgFrame == <<loopVars, portfolio, stops, trail, conc, dec, siz, bk, mp, kl>>
klFrame == <<loopVars, portfolio, stops, trail, conc, dec, siz, bk, mp, tg>>
chandelierFrame == <<loopVars, pureVars>>

\* register_position(symbol, direction, entry_price, atr): the handler calls it
\* after every return of place_market_entry_order, also over an existing entry
register_position(s, direction, entry_price, atr) ==
    /\ portfolio' = RegisterPosition(portfolio, s, direction)
    /\ stops' = [stops EXCEPT ![s] = RegisteredStop(direction, entry_price, atr)]
    /\ UNCHANGED chandelierFrame

\* close_position(symbol)
close_position(s) ==
    /\ portfolio[s] # "none"
    /\ portfolio' = [portfolio EXCEPT ![s] = "none"]
    /\ stops' = [stops EXCEPT ![s] = NoStop]
    /\ UNCHANGED chandelierFrame

\* update_chandelier(symbol, current_high, current_low, current_atr); for a
\* symbol without entry it returns None and changes nothing
update_chandelier(s, current_high, current_low, current_atr) ==
    /\ portfolio[s] # "none"
    /\ stops' = [stops EXCEPT ![s] = UpdatedStop(portfolio[s], @, current_high,
                                                 current_low, current_atr)]
    /\ UNCHANGED <<portfolio, chandelierFrame>>

NextChandelier ==
    \/ \E s \in Symbols, d \in {"LONG", "SHORT"}, e \in BarPrices, a \in Atrs :
          register_position(s, d, e, a)
    \/ \E s \in Symbols : close_position(s)
    \/ \E s \in Symbols, h \in BarPrices, a \in Atrs :
          \E l \in {x \in BarPrices : x <= h} : update_chandelier(s, h, l, a)

SpecChandelier == Init /\ [][NextChandelier]_vars

\* ---- PortfolioState: a position's candles fed one by one -------------------
MaxBars == 4
TrailEntries == {100}
TrailAtrs == {2, 3}
TrailBars == {<<100, 100>>, <<105, 95>>, <<102, 98>>, <<108, 92>>}
TrailPrices == {96, 104}

\* is_chandelier_triggered(symbol, current_price)
IsChandelierTriggered(direction, stop, current_price) ==
    \/ direction = "LONG" /\ current_price <= stop
    \/ direction = "SHORT" /\ current_price >= stop

\* register_position, with the log of the symbol started again
TrailRegister(s, direction, entry_price, atr) ==
    /\ portfolio' = RegisterPosition(portfolio, s, direction)
    /\ stops' = [stops EXCEPT ![s] = RegisteredStop(direction, entry_price, atr)]
    /\ trail' = [log |-> [trail.log EXCEPT ![s] = [NoLog EXCEPT !.entry = entry_price,
                                                                !.atr = atr]],
                 last |-> [op |-> "register_position", sym |-> s, ret |-> "none"]]
    /\ UNCHANGED trailFrame

\* update_chandelier with its return value: None for a symbol without entry
TrailUpdate(s, current_high, current_low, current_atr) ==
    /\ Len(trail.log[s].bars) < MaxBars
    /\ IF portfolio[s] = "none"
       THEN /\ UNCHANGED stops
            /\ trail' = [trail EXCEPT !.last = [op |-> "update_chandelier", sym |-> s,
                                                ret |-> "None"]]
       ELSE LET p == UpdatedStop(portfolio[s], stops[s], current_high, current_low,
                                 current_atr)
            IN  /\ stops' = [stops EXCEPT ![s] = p]
                /\ trail' = [log |-> [trail.log EXCEPT
                                        ![s].bars = Append(@, <<current_high, current_low,
                                                               current_atr>>),
                                        ![s].stops = Append(@, p.stop)],
                             last |-> [op |-> "update_chandelier", sym |-> s,
                                       ret |-> p.stop]]
    /\ UNCHANGED <<portfolio, trailFrame>>

\* is_chandelier_triggered with its return value: False for a symbol without entry
TrailTriggered(s, current_price) ==
    /\ trail' = [trail EXCEPT !.last =
                    [op |-> "is_chandelier_triggered", sym |-> s,
                     ret |-> IF portfolio[s] = "none" THEN FALSE
                             ELSE IsChandelierTriggered(portfolio[s], stops[s].stop,
                                                        current_price)]]
    /\ UNCHANGED <<portfolio, stops, trailFrame>>

NextTrail ==
    \/ \E s \in Symbols, d \in {"LONG", "SHORT"}, e \in TrailEntries, a \in TrailAtrs :
          TrailRegister(s, d, e, a)
    \/ \E s \in Symbols, b \in TrailBars, a \in TrailAtrs : TrailUpdate(s, b[1], b[2], a)
    \/ \E s \in Symbols, p \in TrailPrices : TrailTriggered(s, p)

SpecTrail == Init /\ [][NextTrail]_vars

\* ---- cancel_pending_order ------------------------------------------------------
\* No statement of the program calls cancel_pending_order or stores into
\* pending_entries; its calls are explored on their own, from an engine whose
\* pending map holds any set of symbols.
\* the exceptions exchange.cancel_order can raise, by what the except tests
CancelErrors == {"unknown_order", "other"}

\* mutant: the except never recognises the error
IsUnknownOrderNever(e) == FALSE

\* "Unknown order" in str(e)
IsUnknownOrder(e) == e = "unknown_order"

\* the call of slot c is over
CancelReturn(c, r, e, wasTracked) ==
    /\ cx' = [cx EXCEPT ![c] = IdleCx]
    /\ lastCancel' = [sym |-> cx[c].sym, ret |-> r, err |-> e, tracked |-> wasTracked]

\* del self.pending_entries[symbol] followed by return True; a KeyError is
\* what `raised` says: the except of the function catches the one of the try
\* (and returns False), the one raised inside the except leaves the function
DelPendingAndReturn(c, e, raised) ==
    IF cx[c].sym \in pending_entries
    THEN /\ pending_entries' = pending_entries \ {cx[c].sym}
         /\ CancelReturn(c, "true", e, TRUE)
    ELSE /\ UNCHANGED pending_entries
         /\ CancelReturn(c, raised, e, TRUE)

\* some caller awaits cancel_pending_order(symbol)
CancelCall(c, s) ==
    /\ cx[c].pc = "idle"
    /\ \A d \in Tasks : d < c => cx[d].pc # "idle"
    /\ ops < MaxOps
    /\ ops' = ops + 1
    /\ cx' = [cx EXCEPT ![c] = [pc |-> "called", sym |-> s]]
    /\ UNCHANGED <<engineVars, settingsVars, portfolio, now, exchangeVars, taskVars, daemon,
                   sm, ch, op, trades, lastCancel, sync, stops, pureVars>>

\* the function runs up to its first await: an untracked symbol returns False,
\* a live order is cancelled on the exchange, a dry-run order goes to the log
CancelEnter(c) ==
    /\ cx[c].pc = "called"
    /\ IF cx[c].sym \notin pending_entries
       THEN CancelReturn(c, "false", "none", FALSE)
       ELSE /\ cx' = [cx EXCEPT ![c].pc = IF DRY_RUN THEN "c_db" ELSE "c_cancel"]
            /\ UNCHANGED lastCancel
    /\ UNCHANGED <<engineVars, settingsVars, portfolio, now, exchangeVars, taskVars, daemon,
                   sm, ch, op, ops, trades, sync, stops, pureVars>>

\* exchange.cancel_order answered: the CANCELED row is committed next, or the
\* error is handled by the except of the function
CancelAnswered(c) ==
    /\ cx[c].pc = "c_cancel"
    /\ \/ /\ cx' = [cx EXCEPT ![c].pc = "c_db"]
          /\ UNCHANGED <<pending_entries, lastCancel>>
       \/ \E e \in CancelErrors :
            IF IsUnknownOrder(e)
            THEN DelPendingAndReturn(c, e, "raised")
            ELSE CancelReturn(c, "false", e, TRUE) /\ UNCHANGED pending_entries
    /\ UNCHANGED <<is_halted, active_positions, loss_cooldown, settingsVars, portfolio, now,
                   exchangeVars, taskVars, daemon, sm, ch, op, ops, trades, sync, stops, pureVars>>

\* the commit of the CANCELED row answered (a failure is logged and ignored);
\* the symbol leaves the pending map
CancelDb(c) ==
    /\ cx[c].pc = "c_db"
    /\ \/ trades' = AddTrade(trades, cx[c].sym, "CANCELED")
       \/ UNCHANGED trades
    /\ DelPendingAndReturn(c, "none", "false")
    /\ UNCHANGED <<is_halted, active_positions, loss_cooldown, settingsVars, portfolio, now,
                   exchangeVars, taskVars, daemon, sm, ch, op, ops, sync, stops, pureVars>>

CancelStep(c) == CancelEnter(c) \/ CancelAnswered(c) \/ CancelDb(c)

\* an engine whose pending map holds any set of symbols
InitCancel ==
    /\ is_halted = FALSE
    /\ active_positions = {}
    /\ pending_entries \in SUBSET Symbols
    /\ loss_cooldown = [s \in Symbols |-> 0]
    /\ InitExchange
    /\ InitTasks

NextCancel ==
    \/ \E c \in Tasks, s \in Symbols : CancelCall(c, s)
    \/ \E c \in Tasks : CancelStep(c)

SpecCancel == InitCancel /\ [][NextCancel]_vars

\* ---- the bot left to itself, its periodic loops running for ever --------------
\* state_machine_loop and chandelier_monitoring_loop are `while True` loops
\* around a sleep, every await of a handler or of a daemon is answered (with a
\* result or with an error), and time passes: each of them keeps taking steps.
\* The operator and the account owner do nothing, and a candle closes only when
\* the previous entry and its time-exit daemon are over.
SmWatchStep ==
    \/ SmTick \/ SmSnapshot \/ SmFetched \/ SmManualDb \/ SmManualNotify \/ SmCancel \/ SmAlgoGet
    \/ SmAlgoDel \/ SmTrades \/ SmClosedDb \/ SmClosedNotify \/ SmDryDb \/ SmBalance
    \/ SmMismatchPos

ChWatchStep == ChTick \/ ChCancel \/ ChPositions \/ ChClose

FirstTask == CHOOSE t \in Tasks : \A u \in Tasks : t <= u

NextWatch ==
    \/ \E s \in Symbols : SpawnHandler(FirstTask, s)
    \/ HandlerStep(FirstTask)
    \/ DaemonStep(FirstTask)
    \/ SmWatchStep
    \/ ChWatchStep
    \/ \E d \in TickSteps : Tick(d)

FairWatch ==
    /\ WF_vars(HandlerStep(FirstTask))
    /\ WF_vars(DaemonStep(FirstTask))
    /\ WF_vars(SmWatchStep)
    /\ WF_vars(ChWatchStep)
    /\ WF_vars(\E d \in TickSteps : Tick(d))

SpecWatch == Init /\ [][NextWatch]_vars /\ FairWatch


\* ---- properties -------------------------------------------------------------
\* a handler task is inside place_tp_sl_orders
InTpsl(t) == task[t].pc \in {"t_db", "t_tp", "t_tpm", "t_tpalgo", "t_sl", "t_slalgo", "t_notify"}

\* task t returns from place_market_entry_order in this step
Returns(t) == task[t].pc # "idle" /\ task'[t].pc = "idle"

\* task t sends its market entry order in this step
SubmitsEntry(t) == task[t].pc # "e_create" /\ task'[t].pc = "e_create"

\* the step of handler task t in which the exchange takes one of its exit orders
SubmitsExit(t) ==
    /\ InTpsl(t)
    /\ task'[t] # task[t]
    /\ \/ stdOrders'[task[t].sym] # stdOrders[task[t].sym]
       \/ algoOrders'[task[t].sym] # algoOrders[task[t].sym]

\* this step submits no order and changes no order on the exchange
ExchangeUntouched == UNCHANGED <<pos, entriesOpen, stdOrders, algoOrders>>

C2_SingleEntryPerSymbol == \A s \in Symbols : entriesOpen[s] <= 1

C4_HaltedBlocksEntries ==
    [][is_halted =>
         /\ is_halted'
         /\ \A t \in Tasks :
               (task[t].pc = "k_balance" /\ task'[t] # task[t])
               => /\ task'[t].pc = "idle"
                  /\ lastEntry' = lastEntry
                       \/ (lastEntry'.ret = "false" /\ lastEntry'.rej = "halted")
                  /\ ExchangeUntouched
         /\ \A t \in Tasks : ~SubmitsEntry(t)]_vars

\* C4 witness: a call made while the flag was set has returned false at the halt check
C4_Witness ==
    /\ is_halted
    /\ lastEntry.rej = "halted"
    /\ lastEntry.ret = "false"

\* C5: when check_state_mismatch has read a total balance of zero, is_halted is set
C5_ZeroBalanceHalts == (sm.pc = "m_pos" /\ sm.bal = 0) => is_halted

\* C6: from the moment panic has set the pause and until a resume, no handler
\* task sends a market entry order, whether it was spawned before or after
C6_NoEntryAfterPanic ==
    [][panicked => \A t \in Tasks : ~SubmitsEntry(t)]_vars

\* C7: whenever a call of place_market_entry_order submits a paired exit order
\* that the exchange takes, its symbol is in active_positions at that moment (no
\* exit order is submitted for a symbol that is not tracked)
C7_TrackedBeforeExitOrders ==
    [][\A t \in Tasks : SubmitsExit(t) => task[t].sym \in active_positions]_vars

\* C7, the ordering inside one call alone: a call that is inside
\* place_tp_sl_orders has marked its symbol active beforehand, and the step that
\* enters place_tp_sl_orders leaves the symbol in active_positions
C7_MarkedBeforePlacement ==
    [][\A t \in Tasks :
          /\ InTpsl(t) => task[t].marked
          /\ (~InTpsl(t) /\ task'[t].pc = "t_db") => task'[t].sym \in active_positions']_vars

\* C7 witness: an exit order of an entry is resting on the exchange while the
\* call is still placing the other one and the symbol is no longer tracked
C7_Witness ==
    \E t \in Tasks :
        /\ task[t].pc \in {"t_sl", "t_slalgo"}
        /\ task[t].marked
        /\ "TP" \in stdOrders[task[t].sym]
        /\ task[t].sym \notin active_positions

\* C8: when a call of place_market_entry_order whose market order the exchange
\* accepted returns, its symbol is in active_positions
C8_AcceptedEntryTracked ==
    [][\A t \in Tasks :
          (Returns(t) /\ task[t].accepted) => task[t].sym \in active_positions']_vars

\* C9: after a -4120 rejection of the stop, the algo-channel request is a
\* reduce-only STOP_MARKET on the exit side whose quantity is the amount cut to
\* the quantity step and whose trigger is the stop price on the price tick, and
\* a call whose stop was accepted on the algo channel returns success
C9_AlgoFallback ==
    /\ \A t \in Tasks :
          task[t].pc \in {"t_slalgo", "t_notify"} /\ task[t].slReq # NoReq
          => LET r == task[t].slReq
             IN  /\ r.type = "STOP_MARKET"
                 /\ r.reduceOnly
                 /\ r.side = (IF task[t].signal = "LONG" THEN "sell" ELSE "buy")
                 /\ r.quantity % AmountStep = 0
                 /\ r.quantity <= task[t].amount
                 /\ task[t].amount - r.quantity < AmountStep
                 /\ r.trigger % PriceTick = 0
                 /\ 2 * r.trigger - 2 * task[t].sl <= PriceTick
                 /\ 2 * task[t].sl - 2 * r.trigger < PriceTick
    /\ lastEntry.slVia = "algo" => (lastEntry.tpslRet = "true" /\ lastEntry.ret = "true")

\* C9 witness: a call whose stop went through the algo channel has returned success
C9_Witness == lastEntry.slVia = "algo" /\ lastEntry.tpslRet = "true"

EntryRecsAfter(t) ==
    task[t].recs + (trades'[task[t].sym]["ENTRY"] - trades[task[t].sym]["ENTRY"])

\* C11: when a call of place_market_entry_order whose market order the exchange
\* accepted returns, it has written exactly one entry row to the trades table
C11_OneEntryRecord ==
    [][\A t \in Tasks : (Returns(t) /\ task[t].accepted) => EntryRecsAfter(t) = 1]_vars

\* C11, the part that holds: a call that got as far as placing exit orders has
\* written exactly one entry row, whatever became of the exit orders
C11_OneRecordOncePlacing ==
    [][\A t \in Tasks :
          (Returns(t) /\ task[t].pc \in {"t_tp", "t_tpm", "t_tpalgo", "t_sl", "t_slalgo", "t_notify"})
          => EntryRecsAfter(t) = 1]_vars

\* the stop-loss order of symbol s rests on the exchange, on either channel
HasStop(s) == "SL" \in stdOrders[s] \/ "STOP_MARKET" \in algoOrders[s]

\* the live position of s is tracked and has no stop, the call that should have
\* placed its exit orders has returned with their placement failed, and no
\* handler or time-exit daemon is left that deals with s
TrackedUnprotected(s) ==
    /\ ~DRY_RUN
    /\ s \in active_positions
    /\ pos[s] > 0
    /\ ~HasStop(s)
    /\ lastEntry.sym = s /\ lastEntry.tpslRet = "false"
    /\ \A t \in Tasks : task[t].pc = "idle" /\ daemon[t].pc = "idle"

\* C12: a tracked live position left without protective orders eventually has
\* its stop placed again or is closed
C12_UnprotectedIsResolved ==
    \A s \in Symbols : TrackedUnprotected(s) ~> (HasStop(s) \/ pos[s] = 0)

\* the call of slot c returns in this step
CancelEnds(c) == cx[c].pc # "idle" /\ cx'[c].pc = "idle"

\* C13: a call of cancel_pending_order for a symbol that is not in
\* pending_entries returns False and changes neither the engine, the exchange
\* nor the trades table; a call whose exchange cancel fails with "Unknown order"
\* while its symbol is in pending_entries returns True and removes the symbol;
\* and when any call returns True its symbol is not in pending_entries
C13_CancelPending ==
    [][\A c \in Tasks :
          /\ (cx[c].pc = "called" /\ cx[c].sym \notin pending_entries /\ CancelEnds(c))
             => /\ lastCancel'.ret = "false"
                /\ UNCHANGED <<engineVars, exchangeVars, trades>>
          /\ (cx[c].pc = "c_cancel" /\ CancelEnds(c) /\ lastCancel'.err = "unknown_order"
                /\ cx[c].sym \in pending_entries)
             => /\ lastCancel'.ret = "true"
                /\ cx[c].sym \notin pending_entries'
          /\ (CancelEnds(c) /\ lastCancel'.ret = "true") => cx[c].sym \notin pending_entries']_vars

\* C13 witness: a call on a tracked symbol got "Unknown order" from the exchange,
\* returned True and the symbol is gone from pending_entries
C13_Witness ==
    /\ lastCancel.err = "unknown_order"
    /\ lastCancel.ret = "true"
    /\ lastCancel.tracked
    /\ lastCancel.sym \notin pending_entries

\* C14: whenever the reconciliation leaves the commit of the MANUAL record of a
\* symbol it has just absorbed into active_positions, one MANUAL row for that
\* symbol has been added to the trades table
C14_AbsorbedHasManualRecord ==
    [][(sm.pc = "r_mdb" /\ sm'.pc # "r_mdb")
          => trades'[sm.cur]["MANUAL"] = trades[sm.cur]["MANUAL"] + 1]_vars

\* C14 witness: a symbol absorbed by the reconciliation is tracked, its tick is
\* over and the trades table has no MANUAL row for it
C14_Witness ==
    \E s \in Symbols :
        /\ ~DRY_RUN
        /\ s \in active_positions
        /\ pos[s] > 0
        /\ lastEntry.sym # s
        /\ \A t \in Tasks : task[t].sym # s
        /\ sm.pc = "m_balance"
        /\ trades[s]["MANUAL"] = 0
        /\ trades[s]["ENTRY"] = 0

\* the positions snapshot of the tick in progress
TickSnapshot == IF sm.pc = "r_fetch" THEN {s \in Symbols : pos[s] > 0} ELSE sm.snap

\* a live run of check_active_positions_state returns in this step and has met
\* no exception
TickEndsClean ==
    /\ ~DRY_RUN
    /\ sm.pc \notin {"sleep", "m_balance", "m_pos"}
    /\ sm'.pc = "m_balance"
    /\ ~sm'.err

\* C15: when a live reconciliation tick that met no error returns, every
\* tracked symbol with zero contracts in the tick's snapshot has no order left
\* on the standard and on the algo channel, has one more CLOSED row than when
\* the tick began and is no longer tracked, so no tracked symbol has zero
\* snapshot contracts; and every CLOSED row the tick commits carries the
\* realized P&L of the last trade of the fetch_my_trades answer (0 if empty)
C15_ClosedSymbolsSettled ==
    [][/\ TickEndsClean
          => /\ \A s \in active_positions \ TickSnapshot :
                  /\ stdOrders'[s] = {}
                  /\ algoOrders'[s] = {}
                  /\ trades'[s]["CLOSED"] = sm.closed0[s] + 1
                  /\ s \notin active_positions'
             /\ \A s \in active_positions \cap TickSnapshot :
                  /\ trades'[s]["CLOSED"] = sm.closed0[s]
                  /\ s \in active_positions'
             /\ active_positions' \ TickSnapshot = {}
       /\ (sm.pc = "r_db" /\ trades' # trades)
          => /\ trades'[sm.cur]["CLOSED"] = trades[sm.cur]["CLOSED"] + 1
             /\ sm.pnl = (IF sm.own = <<>> THEN 0 ELSE sm.own[Len(sm.own)])]_vars

\* C15 witness: a live tick without error has returned after it recorded a
\* tracked symbol with zero contracts as CLOSED and removed it
C15_Witness ==
    \E s \in Symbols :
        /\ ~DRY_RUN
        /\ sm.pc = "m_balance"
        /\ ~sm.err
        /\ pos[s] = 0
        /\ trades[s]["CLOSED"] = sm.closed0[s] + 1
        /\ s \notin active_positions
        /\ stdOrders[s] = {}
        /\ algoOrders[s] = {}

\* a step of check_active_positions_state in a run that is not the first
Rerun == ops' > 1 /\ sm.pc \notin {"m_balance", "m_pos"}

\* the run before the one in progress (asleep: the last run) met an exception
PrevRunFailed == IF sm.pc = "sleep" THEN sm.err ELSE sm.prevErr

C17_LossCooldown ==
    [][/\ (sm.pc = "r_notify" /\ sm' # sm)
          => loss_cooldown' =
                IF sm.pnl < 0
                THEN [loss_cooldown EXCEPT ![sm.cur] = now + LOSS_COOLDOWN_MINUTES]
                ELSE loss_cooldown
       /\ loss_cooldown' # loss_cooldown
          => sm.pc = "r_notify" /\ sm.pnl < 0 /\ trades[sm.cur]["CLOSED"] > 0
       /\ \A t \in Tasks :
             (task[t].pc = "k_balance" /\ task'[t] # task[t])
             => IF loss_cooldown[task[t].sym] # 0 /\ now < loss_cooldown[task[t].sym]
                THEN /\ task'[t].pc = "idle"
                     /\ lastEntry' = lastEntry \/ lastEntry'.ret = "false"
                     /\ ExchangeUntouched
                ELSE lastEntry' = lastEntry \/ lastEntry'.rej # "cooldown"]_vars

\* C17 witness: after a CLOSED record with negative P&L armed the cooldown of a
\* symbol, an entry for it before the expiry was rejected by the cooldown check
C17_Witness ==
    /\ lastEntry.rej = "cooldown"
    /\ lastEntry.ret = "false"
    /\ lastEntry.sym \in Symbols
    /\ trades[lastEntry.sym]["CLOSED"] > 0
    /\ now < loss_cooldown[lastEntry.sym]
    /\ pos[lastEntry.sym] = 0

\* C18: when the startup sweep has ended in live mode without an exchange
\* error, active_positions is the set of symbols with contracts, every
\* reduce-only order the listings returned for a tracked symbol is still open,
\* and no order is open on an untracked symbol
C18_SyncRecoversState ==
    (sync.pc = "done" /\ ~DRY_RUN /\ ~sync.err)
    => /\ active_positions = {s \in Symbols : pos[s] > 0}
       /\ \A o \in sync.found :
             (o.sym \in active_positions /\ o.kind \in StdRoles \cup AlgoTypes)
             => o.kind \in (IF o.chan = "std" THEN stdOrders[o.sym] ELSE algoOrders[o.sym])
       /\ \A s \in Symbols \ active_positions : stdOrders[s] = {} /\ algoOrders[s] = {}

\* C18 witness: an error-free sweep has ended; it kept a reduce-only order of a
\* tracked symbol and cancelled a stale order
C18_Witness ==
    /\ sync.pc = "done"
    /\ ~DRY_RUN
    /\ ~sync.err
    /\ sync.tried # {}
    /\ \E o \in sync.found : o.sym \in active_positions /\ o \notin sync.tried

\* C19: when the startup sweep has ended, the cancel of every stale order it
\* listed, on either channel, has been sent, whatever the cancels answered
C19_SweepAttemptsEveryStaleOrder ==
    sync.pc = "done" => sync.stale \subseteq sync.tried

\* C19 witness: the sweep has ended after a cancel raised, and a stale order of
\* the same listing was never sent a cancel
C19_Witness ==
    /\ sync.pc = "done"
    /\ sync.err
    /\ \E o \in sync.tried, q \in sync.stale \ sync.tried : o.chan = q.chan

\* C20: every call of update_chandelier leaves the stop of a LONG position at or
\* above the stop it found, and the stop of a SHORT position at or below it
C20_StopIsMonotone ==
    [][\A s \in Symbols :
          (stops'[s] # stops[s] /\ stops'[s].call = "update_chandelier")
          => /\ portfolio[s] = "LONG" => stops'[s].stop >= stops[s].stop
             /\ portfolio[s] = "SHORT" => stops'[s].stop <= stops[s].stop]_vars

\* C20 witness: update_chandelier met a candle whose ATR puts the new stop of a
\* LONG position below the stop already reached, and the stop stayed where it was
C20_Witness ==
    \E s \in Symbols :
        /\ portfolio[s] = "LONG"
        /\ stops[s].call = "update_chandelier"
        /\ stops[s].extreme - stops[s].atr * CHANDELIER_MULT < stops[s].stop

\* the highest of the entry price and the highs of the first i candles, the
\* lowest of the entry price and their lows
RECURSIVE HighestUpTo(_, _, _)
HighestUpTo(entry, bars, i) ==
    IF i = 0 THEN entry
    ELSE LET h == HighestUpTo(entry, bars, i - 1)
         IN  IF bars[i][1] > h THEN bars[i][1] ELSE h

RECURSIVE LowestUpTo(_, _, _)
LowestUpTo(entry, bars, i) ==
    IF i = 0 THEN entry
    ELSE LET l == LowestUpTo(entry, bars, i - 1)
         IN  IF bars[i][2] < l THEN bars[i][2] ELSE l

\* the stop the claim gives after i candles: the registered stop, then the
\* previous stop or the extreme less (plus) ATR x mult, whichever is higher (lower)
RECURSIVE ExpectedStop(_, _, _)
ExpectedStop(direction, L, i) ==
    IF i = 0
    THEN (IF direction = "LONG" THEN L.entry - L.atr * CHANDELIER_MULT
          ELSE L.entry + L.atr * CHANDELIER_MULT)
    ELSE LET prev == ExpectedStop(direction, L, i - 1)
             cand == IF direction = "LONG"
                     THEN HighestUpTo(L.entry, L.bars, i) - L.bars[i][3] * CHANDELIER_MULT
                     ELSE LowestUpTo(L.entry, L.bars, i) + L.bars[i][3] * CHANDELIER_MULT
         IN  IF direction = "LONG"
             THEN (IF cand > prev THEN cand ELSE prev)
             ELSE (IF cand < prev THEN cand ELSE prev)

\* the run of the example: entry 100, ATR 2, highs 100, 105, 102, 108
ExampleRun(L) ==
    /\ L.entry = 100
    /\ L.atr = 2
    /\ Len(L.bars) = 4
    /\ [i \in 1..4 |-> L.bars[i][1]] = <<100, 105, 102, 108>>
    /\ \A i \in 1..4 : L.bars[i][3] = 2

\* C21: for a registered symbol the extreme is the entry price raised to the
\* highest high fed so far (LONG; lowered to the lowest low for SHORT), the stop
\* after each candle is the previous stop or extreme - atr x mult, whichever is
\* higher (mirror for SHORT), starting from entry -/+ atr x mult; the LONG run of
\* entry 100, ATR 2, highs 100, 105, 102, 108 leaves the stops 96, 101, 101, 104;
\* for a symbol without entry update_chandelier returns None,
\* is_chandelier_triggered returns False, and no entry appears
C21_TrailingStopValues ==
    /\ \A s \in Symbols :
          IF portfolio[s] = "none"
          THEN stops[s] = NoStop
          ELSE LET L == trail.log[s]
                   n == Len(L.bars)
               IN  /\ Len(L.stops) = n
                   /\ stops[s].extreme = (IF portfolio[s] = "LONG"
                                          THEN HighestUpTo(L.entry, L.bars, n)
                                          ELSE LowestUpTo(L.entry, L.bars, n))
                   /\ stops[s].stop = ExpectedStop(portfolio[s], L, n)
                   /\ \A i \in 1..n : L.stops[i] = ExpectedStop(portfolio[s], L, i)
                   /\ (portfolio[s] = "LONG" /\ ExampleRun(L))
                      => L.stops = <<96, 101, 101, 104>>
    /\ (trail.last.op = "update_chandelier" /\ portfolio[trail.last.sym] = "none")
       => trail.last.ret = "None"
    /\ (trail.last.op = "is_chandelier_triggered" /\ portfolio[trail.last.sym] = "none")
       => trail.last.ret = FALSE

\* C21 witness: the LONG run of the example has been fed and has left the stops
\* 96, 101, 101, 104
C21_Witness ==
    \E s \in Symbols :
        /\ portfolio[s] = "LONG"
        /\ ExampleRun(trail.log[s])
        /\ trail.log[s].stops = <<96, 101, 101, 104>>
        /\ trail.last.op = "update_chandelier"

C22_SyncedWhenIterationEnds ==
    [][(sm.pc # "sleep" /\ sm'.pc = "sleep")
          => \A s \in Symbols : portfolio'[s] # "none" => s \in active_positions']_vars

open_longs == Cardinality({s \in PortfolioSymbols : conc.reg[s] = "LONG"})
open_shorts == Cardinality({s \in PortfolioSymbols : conc.reg[s] = "SHORT"})

\* check_entry, STEP 9: a LONG signal is dropped when open_longs has reached the
\* limit, a SHORT signal when open_shorts has
WithinLimit(signal_type) ==
    IF signal_type = "LONG" THEN open_longs < MAX_CONCURRENT_SAME_DIR
                            ELSE open_shorts < MAX_CONCURRENT_SAME_DIR

\* process_closed_kline up to its first await: check_entry has read the counts
\* and returned the signal; the handler now awaits fetch_balance
ConcCheckEntry(s, signal_type) ==
    /\ conc.h[s].pc = "idle"
    /\ WithinLimit(signal_type)
    /\ conc' = [conc EXCEPT !.h[s] = [pc |-> "balance", signal |-> signal_type]]
    /\ UNCHANGED concFrame

\* fetch_balance answered: the handler returns (capital below the minimum, size
\* zero, an exception) or goes on to await place_market_entry_order
ConcBalance(s, goes_on) ==
    /\ conc.h[s].pc = "balance"
    /\ conc' = [conc EXCEPT !.h[s].pc = IF goes_on THEN "entry" ELSE "idle",
                            !.h[s].signal = IF goes_on THEN @ ELSE "none"]
    /\ UNCHANGED concFrame

\* place_market_entry_order returned (an entry for a symbol already held is
\* refused); the handler registers the position and ends
ConcEntry(s, accepted) ==
    /\ conc.h[s].pc = "entry"
    /\ conc.held[s] => ~accepted
    /\ conc' = [conc EXCEPT !.reg[s] = conc.h[s].signal,
                            !.held[s] = @ \/ accepted,
                            !.h[s] = IdleHandler]
    /\ UNCHANGED concFrame

\* a held position is closed on the exchange
ConcClose(s) ==
    /\ conc.held[s]
    /\ conc' = [conc EXCEPT !.held[s] = FALSE]
    /\ UNCHANGED concFrame

\* state_machine_loop: every entry of positions whose symbol is not held is
\* removed by close_position
ConcSync ==
    /\ \E s \in PortfolioSymbols : conc.reg[s] # "none" /\ ~conc.held[s]
    /\ conc' = [conc EXCEPT !.reg = [s \in PortfolioSymbols |->
                                        IF conc.held[s] THEN conc.reg[s] ELSE "none"]]
    /\ UNCHANGED concFrame

NextConc ==
    \/ \E s \in PortfolioSymbols, d \in {"LONG", "SHORT"} : ConcCheckEntry(s, d)
    \/ \E s \in PortfolioSymbols, b \in BOOLEAN : ConcBalance(s, b)
    \/ \E s \in PortfolioSymbols, b \in BOOLEAN : ConcEntry(s, b)
    \/ \E s \in PortfolioSymbols : ConcClose(s)
    \/ ConcSync

SpecConc == Init /\ [][NextConc]_vars

rsi_os == 30
rsi_ob == 70
ADX_THRESHOLD == 20
VOL_MULT_TENTHS == 15
EXTREME_VOL_MULT_TENTHS == 25
HtfBufferPerMille == 2
MinBars1h == 50
MinBars15m == 35

\* the values the arguments are drawn from: the last 1h row (EMA200 at 1000),
\* the last 15m row, the order-flow hint, and the last 3m row with the bands at
\* 95 and 105 and the volume average at 10; bar is <<low, high, close>>
Vol_SMA_20 == 10
Lower_Band == 95
Upper_Band == 105
Frames1h == {NoFrame1h} \cup
            {[len |-> MinBars1h, EMA_50 |-> a, EMA_200 |-> 1000] : a \in {NaN, 997, 1002, 1003}}
Frames15m == {NoFrame15m} \cup
             {[len |-> MinBars15m, ADX_14 |-> a, MACD |-> c, MACD_S |-> 2] :
                 a \in {NaN, 19, 20}, c \in {NaN, 1, 2, 3}}
CvdTrends == {"None", "BUY_PRESSURE", "SELL_PRESSURE"}
RsiValues == {NaN, 30, 50, 70}
Volumes == {10, 16, 26}
Bars3m == {<<94, 100, 96>>, <<94, 100, 94>>, <<100, 106, 104>>, <<98, 102, 100>>}
Gates == {"short", "nan", "session", "lowvol", "pass"}
OpenCounts == {<<0, 0>>, <<MAX_CONCURRENT_SAME_DIR, 0>>, <<0, MAX_CONCURRENT_SAME_DIR>>}

\* get_htf_bias: NEUTRAL without 50 rows or without both averages, BULL with
\* EMA50 above EMA200 by more than 0.2%, BEAR with EMA50 below by more than 0.2%
get_htf_bias(df_1h) ==
    IF df_1h.len < MinBars1h THEN "NEUTRAL"
    ELSE IF df_1h.EMA_50 = NaN \/ df_1h.EMA_200 = NaN THEN "NEUTRAL"
    ELSE IF 1000 * df_1h.EMA_50 > (1000 + HtfBufferPerMille) * df_1h.EMA_200 THEN "BULL"
    ELSE IF 1000 * df_1h.EMA_50 < (1000 - HtfBufferPerMille) * df_1h.EMA_200 THEN "BEAR"
    ELSE "NEUTRAL"

\* get_mtf_regime: RANGE and NEUTRAL without 35 rows; TREND with ADX at the
\* threshold or above; the momentum from MACD against its signal line
get_mtf_regime(df_15m) ==
    IF df_15m.len < MinBars15m THEN [regime |-> "RANGE", momentum |-> "NEUTRAL"]
    ELSE [regime   |-> IF df_15m.ADX_14 # NaN /\ df_15m.ADX_14 >= ADX_THRESHOLD
                       THEN "TREND" ELSE "RANGE",
          momentum |-> IF df_15m.MACD = NaN \/ df_15m.MACD_S = NaN THEN "NEUTRAL"
                       ELSE IF df_15m.MACD > df_15m.MACD_S THEN "BULLISH"
                       ELSE IF df_15m.MACD < df_15m.MACD_S THEN "BEARISH"
                       ELSE "NEUTRAL"]

\* check_entry, STEP 5 to STEP 8: the signal before the portfolio limit
EntrySignal(a, htf_bias, mtf) ==
    LET low_price == a.bar[1]
        high_price == a.bar[2]
        market_price == a.bar[3]
        is_vol_spike == 10 * a.volume > Vol_SMA_20 * VOL_MULT_TENTHS
        is_extreme_vol == 10 * a.volume > Vol_SMA_20 * EXTREME_VOL_MULT_TENTHS
        long_rejection == low_price <= Lower_Band /\ market_price > Lower_Band
        short_rejection == high_price >= Upper_Band /\ market_price < Upper_Band
        cvd_long_ok == a.cvd_trend # "SELL_PRESSURE"
        cvd_short_ok == a.cvd_trend # "BUY_PRESSURE"
        long_htf_ok == IF mtf.regime = "RANGE" THEN htf_bias = "BULL"
                       ELSE htf_bias = "BULL" /\ mtf.momentum = "BULLISH"
        short_htf_ok == IF mtf.regime = "RANGE" THEN htf_bias = "BEAR"
                        ELSE htf_bias = "BEAR" /\ mtf.momentum = "BEARISH"
    IN  IF /\ long_htf_ok
           /\ cvd_long_ok
           /\ a.RSI_14 # NaN /\ a.RSI_14 <= rsi_os
           /\ \/ is_vol_spike /\ long_rejection
              \/ is_extreme_vol /\ low_price <= Lower_Band
        THEN "LONG"
        ELSE IF /\ short_htf_ok
                /\ cvd_short_ok
                /\ a.RSI_14 # NaN /\ a.RSI_14 >= rsi_ob
                /\ \/ is_vol_spike /\ short_rejection
                   \/ is_extreme_vol /\ high_price >= Upper_Band
        THEN "SHORT"
        ELSE "None"

\* check_entry, STEP 9: the signal after the portfolio limit
LimitedSignal(a, signal_type) ==
    IF signal_type = "LONG" /\ a.open_longs >= MAX_CONCURRENT_SAME_DIR THEN "None"
    ELSE IF signal_type = "SHORT" /\ a.open_shorts >= MAX_CONCURRENT_SAME_DIR THEN "None"
    ELSE signal_type

\* check_entry: what the call gives, "raise" for an exception. The early returns
\* (too few rows, a missing indicator, the session filter, the volatility filter)
\* give no signal; past them the status line of STEP 4 is formatted whenever the
\* RSI is not NaN, and it reads vol_mult, which the function assigns only in
\* STEP 5
CheckEntryResult(a) ==
    IF a.gate # "pass" THEN "None"
    ELSE IF a.RSI_14 # NaN THEN "raise"
    ELSE LimitedSignal(a, EntrySignal(a, get_htf_bias(a.df_1h), get_mtf_regime(a.df_15m)))

check_entry ==
    /\ ~dec.called
    /\ dec' = [dec EXCEPT !.called = TRUE, !.ret = CheckEntryResult(dec.args)]
    /\ UNCHANGED decFrame

\* a closed candle with any of the arguments
InitEntry ==
    /\ InitApartFromDec
    /\ \E g \in Gates, f1 \in Frames1h, f15 \in Frames15m, c \in CvdTrends, r \in RsiValues,
          v \in Volumes, b \in Bars3m, n \in OpenCounts :
           dec = [called |-> FALSE, ret |-> "none",
                  args |-> [gate |-> g, df_1h |-> f1, df_15m |-> f15, cvd_trend |-> c,
                            RSI_14 |-> r, volume |-> v, bar |-> b,
                            open_longs |-> n[1], open_shorts |-> n[2]]]

NextEntry == check_entry

SpecEntry == InitEntry /\ [][NextEntry]_vars

\* C24: check_entry returns LONG only with a BULL bias and SHORT only with a
\* BEAR bias, in the trending regime only with the 15m momentum agreeing; a
\* NEUTRAL bias gives a result without signal in both regimes, and so does an
\* order-flow hint against the direction
C24_BiasDecidesSignal ==
    dec.called =>
        LET htf_bias == get_htf_bias(dec.args.df_1h)
            mtf == get_mtf_regime(dec.args.df_15m)
        IN  /\ dec.ret = "LONG" => /\ htf_bias = "BULL"
                                   /\ mtf.regime = "TREND" => mtf.momentum = "BULLISH"
                                   /\ dec.args.cvd_trend # "SELL_PRESSURE"
            /\ dec.ret = "SHORT" => /\ htf_bias = "BEAR"
                                    /\ mtf.regime = "TREND" => mtf.momentum = "BEARISH"
                                    /\ dec.args.cvd_trend # "BUY_PRESSURE"
            /\ htf_bias = "NEUTRAL" => dec.ret = "None"

\* C24, the branch of STEP 8 taken alone: the signal it computes is LONG only
\* with a BULL bias and SHORT only with a BEAR bias, with the momentum agreeing
\* in the trending regime and never against the order-flow hint
C24_BranchRespectsBias ==
    dec.called =>
        LET htf_bias == get_htf_bias(dec.args.df_1h)
            mtf == get_mtf_regime(dec.args.df_15m)
            signal_type == EntrySignal(dec.args, htf_bias, mtf)
        IN  /\ signal_type = "LONG" => /\ htf_bias = "BULL"
                                       /\ mtf.regime = "TREND" => mtf.momentum = "BULLISH"
                                       /\ dec.args.cvd_trend # "SELL_PRESSURE"
            /\ signal_type = "SHORT" => /\ htf_bias = "BEAR"
                                        /\ mtf.regime = "TREND" => mtf.momentum = "BEARISH"
                                        /\ dec.args.cvd_trend # "BUY_PRESSURE"
            /\ htf_bias = "NEUTRAL" => signal_type = "None"

\* C24: no call of check_entry returns a signal
C24_NeverSignals == dec.ret \notin {"LONG", "SHORT"}

\* C24 witness: check_entry was called with a NEUTRAL bias on a candle that
\* passes the filters and it raised
C24_Witness ==
    /\ dec.called
    /\ dec.args.gate = "pass"
    /\ get_htf_bias(dec.args.df_1h) = "NEUTRAL"
    /\ dec.ret = "raise"

\* ---- calculate_position_size as a function of its arguments -------------------

\* Units: capital and min_order in tenths of a USDT, risk_pm in thousandths,
\* notionals in 1/10000 USDT, sizes in thousandths of a coin as a fraction
\* <<numerator, denominator>>, entry_price in USDT.

\* settings.RISK_PERCENTAGE (0.005), settings.LEVERAGE, RiskManager.min_order_usdt
\* (5.5), and the quantity step of the instrument (0.001 coin)
RISK_PERMILLE == 5
LEVERAGE == 5
MIN_ORDER_TENTHS == 55
StepsPerCoin == 1000

\* the attributes of the RiskManager: as the program sets them, and with the
\* risk fraction 0.01 and the minimum 6
RiskAttributes ==
    {[risk_pm |-> RISK_PERMILLE, leverage |-> LEVERAGE, min_order |-> MIN_ORDER_TENTHS],
     [risk_pm |-> 10, leverage |-> LEVERAGE, min_order |-> 60]}
SizingCapitals == {0 - 10, 0, 10, 11, 12, 55, 500, 3000}
SizingPrices == {0 - 1, 0, 7, 100}
SizingAtrs == {0, 1}

\* capital * risk_pct * leverage
BaseNotional(a) == a.capital * a.risk_pm * a.leverage

\* min_order_usdt in the unit of the notionals
MinNotional(a) == a.min_order * 1000

\* a notional without the floor
UnflooredNotional(a) == BaseNotional(a)

\* l.41-48: the notional aimed at, raised to min_order_usdt when below it
TargetNotional(a) ==
    IF BaseNotional(a) < MinNotional(a) THEN MinNotional(a) ELSE BaseNotional(a)

\* l.58-68: the quantity, cut down to the step by amount_to_precision, or the
\* raw quotient when amount_to_precision raised
PositionSize(a, target_notional) ==
    LET per_step == (10000 \div StepsPerCoin) * a.entry_price
    IN  IF a.precise THEN <<target_notional \div per_step, 1>>
        ELSE <<target_notional, per_step>>

ZeroSizing == [kind |-> "ok", size |-> <<0, 1>>, target |-> 0, min_notional_applied |-> FALSE,
               keys |-> {"size", "invest_usdt", "min_notional_applied"}]

\* calculate_position_size(symbol, capital, entry_price); invest_usdt is
\* size * entry_price / leverage and is read off size
SizingResult(a) ==
    IF a.capital <= 0 \/ a.entry_price <= 0 THEN ZeroSizing
    ELSE IF TargetNotional(a) > a.capital * 1000 * a.leverage THEN ZeroSizing
    ELSE LET position_size == PositionSize(a, TargetNotional(a))
         IN  IF position_size[1] <= 0 THEN ZeroSizing
             ELSE [ZeroSizing EXCEPT !.size = position_size,
                                     !.target = TargetNotional(a),
                                     !.min_notional_applied = BaseNotional(a) < MinNotional(a)]

\* a call of the three-parameter method
calculate_position_size ==
    /\ ~siz.called
    /\ siz.args.how = "direct"
    /\ siz' = [siz EXCEPT !.called = TRUE, !.ret = SizingResult(siz.args)]
    /\ UNCHANGED sizFrame

\* process_closed_kline, main.py l.226-228: the call passes (symbol, capital,
\* market_price, atr_val) to the three-parameter method, which raises TypeError
KlineSizing ==
    /\ ~siz.called
    /\ siz.args.how = "handler"
    /\ siz' = [siz EXCEPT !.called = TRUE, !.ret = [NoSizing EXCEPT !.kind = "TypeError"]]
    /\ UNCHANGED sizFrame

InitSizing ==
    /\ InitApartFromSiz
    /\ \E h \in {"direct", "handler"}, c \in SizingCapitals, e \in SizingPrices,
          t \in SizingAtrs, r \in RiskAttributes, p \in BOOLEAN :
           siz = [called |-> FALSE, ret |-> NoSizing,
                  args |-> [how |-> h, capital |-> c, entry_price |-> e, atr |-> t,
                            risk_pm |-> r.risk_pm, leverage |-> r.leverage,
                            min_order |-> r.min_order, precise |-> p]]

NextSizing == calculate_position_size \/ KlineSizing

SpecSizing == InitSizing /\ [][NextSizing]_vars

\* C25: a non-zero result of calculate_position_size never has a notional before
\* rounding below the minimum; when capital x risk fraction is below the minimum
\* divided by the leverage the notional is the minimum and the floor is reported;
\* capital 50, entry 100, risk fraction 0.01, leverage 5 and minimum 6 give the
\* margin 1.2 (size 0.06)
C25_FloorApplied ==
    (siz.called /\ siz.ret.kind = "ok" /\ siz.ret.size[1] > 0) =>
        LET a == siz.args
        IN  /\ siz.ret.target >= a.min_order * 1000
            /\ (a.capital * a.risk_pm * a.leverage < a.min_order * 1000)
               => /\ siz.ret.target = a.min_order * 1000
                  /\ siz.ret.min_notional_applied
            /\ (a.capital * a.risk_pm * a.leverage >= a.min_order * 1000)
               => /\ siz.ret.target = a.capital * a.risk_pm * a.leverage
                  /\ ~siz.ret.min_notional_applied
            /\ (a.capital = 500 /\ a.entry_price = 100 /\ a.risk_pm = 10
                   /\ a.leverage = 5 /\ a.min_order = 60)
               => /\ siz.ret.size[1] = 60 * siz.ret.size[2]
                  /\ siz.ret.size[1] * a.entry_price = 1200 * siz.ret.size[2] * a.leverage

\* C25 witness: the call with capital 50, entry 100, risk fraction 0.01, leverage 5
\* and minimum 6 has returned the size 0.06 with the floor applied
C25_Witness ==
    /\ siz.called
    /\ siz.args.capital = 500 /\ siz.args.entry_price = 100 /\ siz.args.risk_pm = 10
    /\ siz.args.leverage = 5 /\ siz.args.min_order = 60 /\ siz.args.precise
    /\ siz.ret.kind = "ok"
    /\ siz.ret.size = <<60, 1>>
    /\ siz.ret.min_notional_applied

\* C26: for positive capital and entry price the margin of the result
\* (size x entry_price / leverage) is at most 95% of the capital
C26_MarginAtMost95Percent ==
    (siz.called /\ siz.ret.kind = "ok" /\ siz.args.capital > 0 /\ siz.args.entry_price > 0) =>
        siz.ret.size[1] * siz.args.entry_price
            <= 95 * siz.args.capital * siz.ret.size[2] * siz.args.leverage

\* C26: the margin of the result is at most the capital
C26_MarginAtMostCapital ==
    (siz.called /\ siz.ret.kind = "ok" /\ siz.args.capital > 0 /\ siz.args.entry_price > 0) =>
        siz.ret.size[1] * siz.args.entry_price
            <= (siz.args.capital * 100) * siz.ret.size[2] * siz.args.leverage

\* C26 witness: the floor was applied and the margin of the result is the whole
\* capital
C26_Witness ==
    /\ siz.called /\ siz.ret.kind = "ok"
    /\ siz.args.capital > 0
    /\ siz.ret.min_notional_applied
    /\ siz.ret.size[1] * siz.args.entry_price
          = (siz.args.capital * 100) * siz.ret.size[2] * siz.args.leverage

\* C27: the sizing call of the handler, made with (symbol, capital, entry_price,
\* atr), returns a result that carries the stop and take-profit distances, and
\* so does every result of the method
C27_SizingCarriesDistances ==
    siz.called =>
        /\ siz.ret.kind = "ok"
        /\ {"sl_dist", "tp_dist"} \subseteq siz.ret.keys

\* C27 witness: the handler has made its sizing call with positive capital,
\* price and ATR and the call has raised TypeError
C27_Witness ==
    /\ siz.called
    /\ siz.args.how = "handler"
    /\ siz.args.capital > 0 /\ siz.args.entry_price > 0 /\ siz.args.atr > 0
    /\ siz.ret.kind = "TypeError"

\* ---- with_exponential_backoff ---------------------------------------------------

\* the parameters a wrapped call is followed with
MaxRetries == 3
BaseDelays == {1, 2, 3}
MaxDelays == {2, 4}

\* a delay that doubles without the cap
UncappedDelay(delay, max_delay) == delay * 2

\* l.39: delay = min(max_delay, delay * 2)
NextDelay(delay, max_delay) == Min(max_delay, delay * 2)

\* l.24-30: func is awaited and returns, raises one of RateLimitExceeded,
\* RequestTimeout, NetworkError ("transient"), or raises something else
BackoffCall(outcome) ==
    /\ bk.pc = "call"
    /\ bk' = [bk EXCEPT
                !.attempts = @ + 1,
                !.err = IF outcome = "ok" THEN "none" ELSE outcome,
                !.retries = IF outcome = "transient" THEN @ + 1 ELSE @,
                !.pc = CASE outcome = "ok" -> "returned"
                         [] outcome = "other" -> "raised"
                         [] outcome = "transient" ->
                               IF bk.retries + 1 > bk.max_retries THEN "raised" ELSE "sleep"]
    /\ UNCHANGED bkFrame

\* l.38-39: asyncio.sleep(delay) is over, the delay is doubled up to max_delay
BackoffSleep ==
    /\ bk.pc = "sleep"
    /\ bk' = [bk EXCEPT !.waits = Append(@, bk.delay),
                        !.delay = NextDelay(bk.delay, bk.max_delay),
                        !.pc = "call"]
    /\ UNCHANGED bkFrame

InitBackoff ==
    /\ InitApartFromBk
    /\ \E r \in 0..MaxRetries, b \in BaseDelays, x \in MaxDelays :
           bk = [NoBackoff EXCEPT !.max_retries = r, !.base_delay = b, !.max_delay = x,
                                  !.delay = b]

NextBackoff ==
    \/ \E outcome \in {"ok", "transient", "other"} : BackoffCall(outcome)
    \/ BackoffSleep

\* the awaited call answers and the sleep ends
SpecBackoff == InitBackoff /\ [][NextBackoff]_vars /\ WF_vars(NextBackoff)

RECURSIVE Pow2(_)
Pow2(k) == IF k = 0 THEN 1 ELSE 2 * Pow2(k - 1)

BackoffDone == bk.pc \in {"returned", "raised"}

\* the attempts and outcomes of a wrapped call: at most max_retries + 1
\* attempts, one wait before every attempt after the first, a transient error
\* re-raised only with the budget used up, any other error raised by the
\* attempt it came from, a success returned by the attempt it came from
BackoffBudget ==
    /\ bk.attempts <= bk.max_retries + 1
    /\ bk.retries <= bk.max_retries + 1
    /\ Len(bk.waits) = (IF bk.pc = "call" THEN bk.attempts
                        ELSE IF bk.attempts = 0 THEN 0 ELSE bk.attempts - 1)
    /\ (bk.pc = "raised" /\ bk.err = "transient") => bk.attempts = bk.max_retries + 1
    /\ (bk.pc = "sleep") => (bk.err = "transient" /\ bk.attempts <= bk.max_retries)
    /\ (bk.pc = "raised") => bk.err \in {"transient", "other"}
    /\ (bk.pc = "returned") => bk.err = "none"
    /\ (bk.err = "other") => bk.pc = "raised"

BackoffWaits ==
    \A k \in 1..Len(bk.waits) :
        bk.waits[k] = IF k = 1 THEN bk.base_delay
                      ELSE Min(bk.max_delay, bk.base_delay * Pow2(k - 1))

CanFail == {"WebSocketLoop", "ChandelierMonitor"}

\* the session is not closed
ClosesSkipped(n) == n

\* l.626-629: await pipeline.close()
ClosesAfter(n) == n + 1

\* l.558-572: the database check; without connection main returns before the
\* session exists, otherwise the start message is sent and DataPipeline,
\* StrategyEngine, RiskManager and ExecutionEngine are constructed
MainStart(is_db_connected) ==
    /\ mp.pc = "db"
    /\ mp' = IF is_db_connected
             THEN [mp EXCEPT !.pc = "sync", !.session = "open"]
             ELSE [mp EXCEPT !.pc = "done", !.exit = "return"]
    /\ UNCHANGED mpFrame

\* l.575: sync_state_from_exchange returns or raises
MainSync(raises) ==
    /\ mp.pc = "sync"
    /\ mp' = IF raises THEN [mp EXCEPT !.pc = "finally", !.exit = "raise"]
             ELSE [mp EXCEPT !.pc = "telegram"]
    /\ UNCHANGED mpFrame

\* l.577-605: setup_telegram_bot gives the application or None; starting the
\* application raises, or the three core tasks are created
MainTelegram(has_app, raises) ==
    /\ mp.pc = "telegram"
    /\ raises => has_app
    /\ mp' = IF raises THEN [mp EXCEPT !.pc = "finally", !.app = TRUE, !.exit = "raise"]
             ELSE [mp EXCEPT !.pc = "gather", !.app = has_app,
                             !.core = [c \in CoreTasks |-> "running"]]
    /\ UNCHANGED mpFrame

\* l.583-588: the body of a core task ends with an exception; guarded logs it
\* and raises it again, which ends the task
CoreFails(c) ==
    /\ mp.pc = "gather"
    /\ c \in CanFail
    /\ mp.core[c] = "running"
    /\ mp' = [mp EXCEPT !.core[c] = "failed", !.reraised = @ \cup {c}]
    /\ UNCHANGED mpFrame

\* a keyboard interrupt reaches main while it awaits the startup sync or the
\* start of the Telegram application
MainInterrupt ==
    /\ mp.pc \in {"sync", "telegram"}
    /\ mp' = [mp EXCEPT !.pc = "finally", !.exit = "interrupt"]
    /\ UNCHANGED mpFrame

\* l.606-613: main leaves its await of gather(..., return_exceptions=True):
\* by a keyboard interrupt, or with the results once all three tasks are done
\* (which state_machine_loop never is), logging the exceptions among them
MainLeavesGather(how) ==
    /\ mp.pc = "gather"
    /\ how = "return" => \A c \in CoreTasks : mp.core[c] # "running"
    /\ mp' = [mp EXCEPT !.pc = "finally", !.exit = how]
    /\ UNCHANGED mpFrame

\* l.615-624: the Telegram application, when bound, is stopped; what its
\* shutdown raises is logged
MainFinally(raises) ==
    /\ mp.pc = "finally"
    /\ raises => mp.app
    /\ mp' = [mp EXCEPT !.pc = "close",
                        !.warned = IF raises THEN @ \cup {"app"} ELSE @]
    /\ UNCHANGED mpFrame

\* l.626-631: pipeline.close() is awaited, what it raises is logged, main ends
MainClose(raises) ==
    /\ mp.pc = "close"
    /\ mp' = [mp EXCEPT !.pc = "done", !.session = "closed",
                        !.closes = ClosesAfter(mp.closes),
                        !.warned = IF raises THEN @ \cup {"close"} ELSE @]
    /\ UNCHANGED mpFrame

\* the steps main takes by itself
MainStep ==
    \/ \E b \in BOOLEAN : MainStart(b)
    \/ \E b \in BOOLEAN : MainSync(b)
    \/ \E a \in BOOLEAN, b \in BOOLEAN : MainTelegram(a, b)
    \/ MainLeavesGather("return")
    \/ \E b \in BOOLEAN : MainFinally(b)
    \/ \E b \in BOOLEAN : MainClose(b)

NextMain ==
    \/ \E b \in BOOLEAN : MainStart(b)
    \/ \E b \in BOOLEAN : MainSync(b)
    \/ \E a \in BOOLEAN, b \in BOOLEAN : MainTelegram(a, b)
    \/ \E c \in CoreTasks : CoreFails(c)
    \/ MainInterrupt
    \/ \E how \in {"return", "interrupt"} : MainLeavesGather(how)
    \/ \E b \in BOOLEAN : MainFinally(b)
    \/ \E b \in BOOLEAN : MainClose(b)

\* main goes on whenever it can; nothing obliges a task to fail or an
\* interrupt to come
SpecMain == Init /\ [][NextMain]_vars /\ WF_vars(MainStep)

C30_FailureEndsMain ==
    (\E c \in CoreTasks : mp.core[c] = "failed") ~> (mp.pc = "done")

\* C30 witness: a core task has failed, guarded has raised its exception
\* again, and main is still in its gather with another task running
C30_Witness ==
    /\ mp.pc = "gather"
    /\ mp.core["WebSocketLoop"] = "failed"
    /\ "WebSocketLoop" \in mp.reraised
    /\ mp.core["StateMachine"] = "running"


\* ---- the Telegram commander on its own -------------------------------------------
\* commands handled at most (the exploration stops there)
MaxCmds == 2

\* the words that follow a command
Tokens == {"5", "0.5", "abc", "dry_run", "REAL", "3m"}

\* context.args of a command that takes one value: none or one word
OneArg == {<<>>} \cup {<<a>> : a \in Tokens}

\* the first word of /setparam: the keys of its mapping table and one that is not
SetparamKeys ==
    {"k", "k_value", "risk", "leverage", "timeframe", "time_exit", "vol_mult",
     "atr_ratio", "sl", "sl_mult", "tp", "tp_mult", "cooldown", "mode", "zzz"}

\* context.args of /setparam: none, a key alone, or a key and a value
SetparamArgs == {<<>>, <<"k">>} \cup {<<k, a>> : k \in SetparamKeys, a \in Tokens}

\* str.lower() on the words above
Lower(a) == IF a = "REAL" THEN "real" ELSE a

\* str.isdigit() on the words above
isdigit(a) == a = "5"

\* int(a) and float(a) succeed; otherwise they raise ValueError
IntOk(a) == a = "5"
FloatOk(a) == a \in {"5", "0.5"}

\* str(int(a)) and str(float(a)) where the conversion succeeds
IntStr(a) == a
FloatStr(a) == IF a = "5" THEN "5.0" ELSE a

\* mutant: every chat is taken for the operator's
check_admin_anyone(chat_id) == TRUE

\* check_admin: the chat id as text against the configured one
check_admin(chat_id) == ToString(chat_id) = TELEGRAM_CHAT_ID

\* a command of chat c has reached its handler
Received(c) == [tg EXCEPT !.chat = c, !.n = @ + 1]

\* update_env_variable(key, value): os.environ always, the .env file when it exists
update_env_variable(rec, key, value) ==
    [rec EXCEPT !.environ[key] = value,
                !.dotenv[key] = IF rec.exists THEN value ELSE @]

\* settings.<attr> = value followed by update_env_variable(attr, str(value))
SetAndSave(rec, attr, text) ==
    update_env_variable([rec EXCEPT !.settings[attr] = text], attr, text)

\* the handlers of the Application run one update at a time
CmdReady == op.pc = "idle" /\ tg.n < MaxCmds

\* what no command handler assigns
cmdFrame ==
    <<engineVars, portfolio, now, exchangeVars, taskVars, daemon, sm, ch, ops, trades,
      cx, lastCancel, sync, stops, trail, conc, dec, siz, bk, mp, kl>>

\* the mapping table of setparam_cmd: key -> attribute and cast
SetparamAttr(key) ==
    CASE key \in {"k", "k_value"} -> "K_VALUE"
      [] key = "risk" -> "RISK_PERCENTAGE"
      [] key = "leverage" -> "LEVERAGE"
      [] key = "timeframe" -> "TIMEFRAME"
      [] key = "time_exit" -> "TIME_EXIT_MINUTES"
      [] key = "vol_mult" -> "VOL_MULT"
      [] key = "atr_ratio" -> "ATR_RATIO_MULT"
      [] key \in {"sl", "sl_mult"} -> "SL_MULT"
      [] key \in {"tp", "tp_mult"} -> "TP_MULT"
      [] key = "cooldown" -> "LOSS_COOLDOWN_MINUTES"
      [] OTHER -> "DRY_RUN"

SetparamCast(key) ==
    CASE key \in {"leverage", "time_exit", "cooldown"} -> "int"
      [] key \in {"timeframe", "mode"} -> "str"
      [] OTHER -> "float"

CastOk(cast, a) ==
    CASE cast = "int" -> IntOk(a) [] cast = "float" -> FloatOk(a) [] OTHER -> TRUE

CastStr(cast, a) ==
    CASE cast = "int" -> IntStr(a) [] cast = "float" -> FloatStr(a) [] OTHER -> a

\* /pause
pause_cmd(c) ==
    /\ CmdReady
    /\ tg' = Received(c)
    /\ IS_PAUSED' = IF check_admin(c) THEN TRUE ELSE IS_PAUSED
    /\ UNCHANGED <<DRY_RUN, panicked, op, cmdFrame>>

\* /resume
resume_cmd(c) ==
    /\ CmdReady
    /\ tg' = Received(c)
    /\ IS_PAUSED' = IF check_admin(c) THEN FALSE ELSE IS_PAUSED
    /\ panicked' = IF check_admin(c) THEN FALSE ELSE panicked
    /\ UNCHANGED <<DRY_RUN, op, cmdFrame>>

\* /leverage [n]
leverage_cmd(c, args) ==
    /\ CmdReady
    /\ tg' = IF check_admin(c) /\ args # <<>> /\ isdigit(args[1])
             THEN SetAndSave(Received(c), "LEVERAGE", IntStr(args[1]))
             ELSE Received(c)
    /\ UNCHANGED <<settingsVars, op, cmdFrame>>

\* /mode [dry_run|real]
mode_cmd(c, args) ==
    /\ CmdReady
    /\ IF check_admin(c) /\ args # <<>> /\ Lower(args[1]) \in {"dry_run", "real"}
       THEN /\ DRY_RUN' = (Lower(args[1]) = "dry_run")
            /\ tg' = update_env_variable(Received(c), "DRY_RUN",
                        IF Lower(args[1]) = "dry_run" THEN "True" ELSE "False")
       ELSE /\ tg' = Received(c)
            /\ UNCHANGED DRY_RUN
    /\ UNCHANGED <<IS_PAUSED, panicked, op, cmdFrame>>

\* the body shared by /k_value, /risk (a float) and /time_exit (an int): the
\* value is cast, assigned and saved; a missing or malformed one is answered
\* with the usage
NumberSet(c, attr, cast, args) ==
    IF check_admin(c) /\ args # <<>> /\ CastOk(cast, args[1])
    THEN SetAndSave(Received(c), attr, CastStr(cast, args[1]))
    ELSE Received(c)

\* /k_value [x]
k_value_cmd(c, args) ==
    /\ CmdReady
    /\ tg' = NumberSet(c, "K_VALUE", "float", args)
    /\ UNCHANGED <<settingsVars, op, cmdFrame>>

\* /risk [x]
risk_cmd(c, args) ==
    /\ CmdReady
    /\ tg' = NumberSet(c, "RISK_PERCENTAGE", "float", args)
    /\ UNCHANGED <<settingsVars, op, cmdFrame>>

\* /time_exit [n]
time_exit_cmd(c, args) ==
    /\ CmdReady
    /\ tg' = NumberSet(c, "TIME_EXIT_MINUTES", "int", args)
    /\ UNCHANGED <<settingsVars, op, cmdFrame>>

\* /timeframe [1m|3m|5m|15m]
timeframe_cmd(c, args) ==
    /\ CmdReady
    /\ tg' = IF check_admin(c) /\ args # <<>> /\ Lower(args[1]) \in {"1m", "3m", "5m", "15m"}
             THEN SetAndSave(Received(c), "TIMEFRAME", Lower(args[1]))
             ELSE Received(c)
    /\ UNCHANGED <<settingsVars, op, cmdFrame>>

\* /restart: the other main.py processes are killed and os.execv is scheduled
restart_cmd(c) ==
    /\ CmdReady
    /\ tg' = IF check_admin(c) THEN [Received(c) EXCEPT !.restart = TRUE] ELSE Received(c)
    /\ UNCHANGED <<settingsVars, op, cmdFrame>>

\* /panic: the operator's command sends its first reply and goes on as PanicReplied
panic_cmd(c) ==
    /\ CmdReady
    /\ tg' = Received(c)
    /\ op' = IF check_admin(c) THEN [IdleOp EXCEPT !.pc = "p_reply"] ELSE op
    /\ UNCHANGED <<settingsVars, cmdFrame>>

\* /setparam [key] [value]
setparam_cmd(c, args) ==
    /\ CmdReady
    /\ IF ~check_admin(c) \/ Len(args) < 2 \/ Lower(args[1]) \notin SetparamKeys \ {"zzz"}
       THEN tg' = Received(c) /\ UNCHANGED DRY_RUN
       ELSE LET key == Lower(args[1])
                raw_val == args[2]
                is_dry == Lower(raw_val) \in {"dry", "dry_run", "true"}
            IN  IF key = "mode"
                THEN /\ DRY_RUN' = is_dry
                     /\ tg' = update_env_variable(Received(c), "DRY_RUN",
                                 IF is_dry THEN "True" ELSE "False")
                ELSE /\ tg' = IF CastOk(SetparamCast(key), raw_val)
                               THEN SetAndSave(Received(c), SetparamAttr(key),
                                               CastStr(SetparamCast(key), raw_val))
                               ELSE Received(c)
                     /\ UNCHANGED DRY_RUN
    /\ UNCHANGED <<IS_PAUSED, panicked, op, cmdFrame>>

\* the bot with positions tracked or not, open or flat, exit orders on either
\* channel, the .env file present or not; then commands from both chats
InitCmd ==
    /\ is_halted = FALSE
    /\ active_positions \in SUBSET Symbols
    /\ pending_entries = NewPendingEntries
    /\ loss_cooldown = [s \in Symbols |-> 0]
    /\ pos \in [Symbols -> 0..1]
    /\ entriesOpen = [s \in Symbols |-> 0]
    /\ stdOrders \in [Symbols -> {{}, {"TP"}}]
    /\ algoOrders \in [Symbols -> {{}, {"STOP_MARKET"}}]
    /\ InitLoops
    /\ trail = NoTrail /\ conc = NoConc /\ dec = NoDec /\ siz = NoSiz
    /\ bk = NoBackoff /\ mp = NoMain /\ kl = NoKl
    /\ tg \in {[NoTg EXCEPT !.exists = e] : e \in BOOLEAN}

NextCmd ==
    \/ \E c \in ChatIds : pause_cmd(c)
    \/ \E c \in ChatIds : resume_cmd(c)
    \/ \E c \in ChatIds, args \in OneArg : leverage_cmd(c, args)
    \/ \E c \in ChatIds, args \in OneArg : mode_cmd(c, args)
    \/ \E c \in ChatIds, args \in OneArg : k_value_cmd(c, args)
    \/ \E c \in ChatIds, args \in OneArg : risk_cmd(c, args)
    \/ \E c \in ChatIds, args \in OneArg : time_exit_cmd(c, args)
    \/ \E c \in ChatIds, args \in OneArg : timeframe_cmd(c, args)
    \/ \E c \in ChatIds : restart_cmd(c)
    \/ \E c \in ChatIds : panic_cmd(c)
    \/ \E c \in ChatIds, args \in SetparamArgs : setparam_cmd(c, args)
    \/ PanicReplied \/ PanicCancel \/ PanicAlgoGet \/ PanicAlgoDel
    \/ PanicPositions \/ PanicClose

SpecCmd == InitCmd /\ [][NextCmd]_vars

\* C31: a command from a chat other than the configured operator's changes
\* nothing: IS_PAUSED, DRY_RUN and every other setting, the environment and the
\* .env file, the maps of the engine and the exchange stay as they were, no
\* restart is scheduled and no panic (hence no order call) is started
C31_OtherChatChangesNothing ==
    [][(tg'.n = tg.n + 1 /\ ToString(tg'.chat) # TELEGRAM_CHAT_ID)
        => /\ UNCHANGED <<settingsVars, engineVars, exchangeVars, op, portfolio, trades>>
           /\ tg'.settings = tg.settings
           /\ tg'.environ = tg.environ
           /\ tg'.dotenv = tg.dotenv
           /\ tg'.restart = tg.restart]_vars

\* C31 witness: the only command so far came from the other chat while a
\* position was tracked and open with its exit orders, and all of it is still there
C31_OtherChatCommanded ==
    /\ tg.n = 1
    /\ tg.chat = 2002
    /\ \E s \in Symbols :
        /\ s \in active_positions
        /\ pos[s] > 0
        /\ stdOrders[s] # {}
        /\ algoOrders[s] # {}
    /\ ~IS_PAUSED
    /\ op.pc = "idle"

\* ---- the loss cooldown on every way a position closes -----------------------
\* the reconciliation tick has recorded the close of sm.cur and goes on
SmClosesAtLoss == sm.pc = "r_notify" /\ sm.pnl < 0 /\ sm'.pc # "r_notify"

\* the time-exit daemon of slot t, having closed its position at a loss,
\* removes the symbol from active_positions
DaemonClosesAtLoss(t) ==
    /\ daemon[t].pc = "x_notify"
    /\ daemon[t].pnl < 0
    /\ daemon'[t].pc = "idle"
    /\ daemon[t].sym \in active_positions
    /\ daemon[t].sym \notin active_positions'

\* C32: a position that closes with negative realized P&L arms the cooldown of
\* its symbol, whichever path closed it: here the two paths that end a
\* position's tracking, the reconciliation tick (which also ends the positions
\* that a take-profit, a stop, the trailing-stop monitor or a panic closed on
\* the exchange) and the time-exit daemon
C32_LossArmsCooldown ==
    [][/\ SmClosesAtLoss => loss_cooldown'[sm.cur] = now + LOSS_COOLDOWN_MINUTES
       /\ \A t \in Tasks :
            DaemonClosesAtLoss(t)
                => loss_cooldown'[daemon[t].sym] = now + LOSS_COOLDOWN_MINUTES]_vars

\* C32, the part that holds: the reconciliation tick arms the cooldown of every
\* close it records with negative P&L
C32_ReconArmsCooldown ==
    [][SmClosesAtLoss => loss_cooldown'[sm.cur] = now + LOSS_COOLDOWN_MINUTES]_vars

\* C32 witness: the time-exit daemon has closed its position at a loss and is
\* about to untrack the symbol; no cooldown is armed and nothing is left to arm one
C32_TimeExitAtLoss ==
    \E t \in Tasks :
        /\ daemon[t].pc = "x_notify"
        /\ daemon[t].pnl < 0
        /\ daemon[t].sym \in active_positions
        /\ pos[daemon[t].sym] = 0
        /\ loss_cooldown[daemon[t].sym] = 0
        /\ sm.pc = "sleep"

\* ---- forced exits and the exit orders -----------------------------------------
\* the exchange has no open exit order of symbol s on either channel
NoExitOrders(s) == stdOrders[s] = {} /\ algoOrders[s] = {}

\* the reduce-only market close of the trailing-stop monitor is filled
ChCloseFilled == ch.pc = "c_close" /\ pos'[ch.cur] < pos[ch.cur]

\* the reduce-only market close of the time-exit daemon of slot t is filled
DaemonCloseFilled(t) == daemon[t].pc = "x_close" /\ daemon'[t].pc = "x_db"

\* C33: a forced exit, of the time-exit daemon or of the trailing-stop monitor,
\* has cancelled the exit orders of its symbol on both channels when its
\* reduce-only market close is filled
C33_CancelBeforeForcedClose ==
    [][/\ ChCloseFilled => NoExitOrders(ch.cur)
       /\ \A t \in Tasks : DaemonCloseFilled(t) => NoExitOrders(daemon[t].sym)]_vars

\* C33 witness: the trailing-stop monitor has closed the position of a tracked
\* symbol and gone back to sleep while the stop on the algo channel is still open
C33_StopLeftByMonitor ==
    \E s \in Symbols :
        /\ s \in active_positions
        /\ pos[s] = 0
        /\ algoOrders[s] # {}
        /\ ch.pc = "sleep"
        /\ sm.pc = "sleep"
        /\ op.pc = "idle"
        /\ \A t \in Tasks : task[t].pc = "idle" /\ daemon[t].pc \in {"idle", "sleep"}
        /\ trades[s]["CLOSED"] = 0
        /\ portfolio[s] # "none"

\* ---- the bot's own entries and the absorption of external positions ----------
\* the whole position of symbol s was opened by market entries of the bot
OwnPosition(s) == pos[s] > 0 /\ entriesOpen[s] = pos[s]

\* the reconciliation tick takes symbol s for an external position in this
\* step: it marks it active and sends the commit of its MANUAL record
Absorbs(s) ==
    /\ s \notin active_positions
    /\ s \in active_positions'
    /\ sm'.pc = "r_mdb"
    /\ sm'.cur = s

\* C34: a position opened by the bot's own place_market_entry_order is never
\* absorbed as external by a reconciliation tick, whatever the interleaving of
\* the tick with the entry and with the forced exits
C34_OwnEntryNotAbsorbed ==
    [][\A s \in Symbols : Absorbs(s) => ~OwnPosition(s)]_vars

\* C34 witness: a MANUAL row stands in the trades table for a position that the
\* handler still awaiting fetch_order has opened; the two operations started are
\* that handler and the tick, so nobody else has touched the account
C34_OwnEntryAbsorbed ==
    \E t \in Tasks :
        /\ task[t].pc = "e_fetch"
        /\ task[t].accepted
        /\ OwnPosition(task[t].sym)
        /\ task[t].sym \in active_positions
        /\ trades[task[t].sym]["MANUAL"] = 1
        /\ trades[task[t].sym]["ENTRY"] = 0
        /\ ops = 2

\* ---- the reconciliation tick and its positions snapshot -------------------------
\* the tick handles symbol s as closed in this step: it receives the answer of
\* its cancel_all_orders, commits its CLOSED row, or removes it from
\* active_positions at the end of the run
TickCancels(s) == sm.pc = "r_cancel" /\ sm.cur = s
TickRecordsClosed(s) == sm.pc = "r_db" /\ sm.cur = s /\ trades'[s]["CLOSED"] > trades[s]["CLOSED"]
TickUntracks(s) ==
    /\ sm.pc \notin {"sleep", "m_balance", "m_pos"}
    /\ sm'.pc \in {"sleep", "m_balance"}
    /\ s \in active_positions
    /\ s \notin active_positions'

\* C35: a live reconciliation tick never cancels the exit orders of, writes a
\* CLOSED row for, or untracks a symbol whose position on the exchange is not
\* zero at that moment
C35_ClosesOnlyFlatSymbols ==
    [][~DRY_RUN =>
        \A s \in Symbols :
            (TickCancels(s) \/ TickRecordsClosed(s) \/ TickUntracks(s)) => pos[s] = 0]_vars

\* C35 witness: a live tick has recorded as CLOSED and untracked the symbol of a
\* position that the bot opened while the answer of fetch_positions was on its
\* way; the position is open on the exchange with its exit orders cancelled
C35_LivePositionClosedByTick ==
    \E s \in Symbols :
        /\ ~DRY_RUN
        /\ OwnPosition(s)
        /\ s \notin active_positions
        /\ trades[s]["CLOSED"] = 1
        /\ trades[s]["MANUAL"] = 0
        /\ sm.pc = "m_balance"
        /\ ops = 2

\* ---- one entry and what is recorded of its closing ----------------------------
\* place_market_entry_order has not been called yet and no handler is running
NoCallYet == lastEntry = NoEntry /\ \A t \in Tasks : task[t].pc = "idle"

\* a candle closes while place_market_entry_order has not been called
SpawnFirst(s) == NoCallYet /\ SpawnHandler(FirstTask, s)

\* the bot on an account that nobody else opens positions on, with candles
\* closing until a handler calls place_market_entry_order: every behaviour has
\* at most one position, the one that call opens
NextOneEntry ==
    \/ \E s \in Symbols : SpawnFirst(s)
    \/ HandlerStep(FirstTask)
    \/ DaemonStep(FirstTask)
    \/ SmStep
    \/ SmTick
    \/ \E s \in Symbols : ExchangeFill(s)
    \/ \E s \in Symbols : ExternalClose(s)
    \/ \E d \in TickSteps : Tick(d)

SpecOneEntry == Init /\ [][NextOneEntry]_vars

\* C36: one position lifetime produces at most one CLOSED row; with a single
\* entry in the whole behaviour, the trades table never holds a second CLOSED
\* row of the symbol
C36_OneClosedRowPerLifetime == \A s \in Symbols : trades[s]["CLOSED"] <= 1

\* C36, the cooldown: with a single entry in the whole behaviour, a cooldown
\* that is armed is not armed again
C36_OneCooldownPerLifetime ==
    [][\A s \in Symbols :
        loss_cooldown[s] # 0 => loss_cooldown'[s] = loss_cooldown[s]]_vars

\* C36 witness: live, the single position of the behaviour is closed and
\* untracked, and the trades table holds two CLOSED rows of its symbol
C36_ClosedTwice ==
    \E s \in Symbols :
        /\ ~DRY_RUN
        /\ lastEntry.sym = s
        /\ lastEntry.ret = "true"
        /\ trades[s]["CLOSED"] = 2
        /\ trades[s]["MANUAL"] = 0
        /\ pos[s] = 0
        /\ s \notin active_positions
        /\ sm.pc = "sleep"

\* ---- a time-exit daemon that outlives its position ------------------------------
\* the clock when the exploration begins: the first position was entered at 0
ReentryStart == TIME_EXIT_MINUTES - LOSS_COOLDOWN_MINUTES

\* the bot some time after its first position on a symbol: the entry at time 0
\* returned True, its take-profit filled, the reconciliation recorded the close
\* without loss and untracked the symbol; the time-exit daemon of that entry is
\* still in its sleep, due at TIME_EXIT_MINUTES
InitReentry ==
    /\ is_halted = FALSE
    /\ InitEngine
    /\ InitExchange
    /\ IS_PAUSED = FALSE
    /\ DRY_RUN \in BOOLEAN
    /\ portfolio = [s \in Symbols |-> "none"]
    /\ now = ReentryStart
    /\ task = [t \in Tasks |-> IdleTask]
    /\ \E s \in Symbols :
        /\ lastEntry = [sym |-> s, ret |-> "true", tpslRet |-> "true", rej |-> "none",
                        slVia |-> IF DRY_RUN THEN "none" ELSE "std"]
        /\ daemon = [t \in Tasks |->
                        IF t = FirstTask
                        THEN [IdleDaemon EXCEPT !.pc = "sleep", !.sym = s,
                                                !.due = TIME_EXIT_MINUTES]
                        ELSE IdleDaemon]
        /\ trades = AddTrade(AddTrade(NoTrades, s, "ENTRY"), s, "CLOSED")
    /\ sm = IdleSm
    /\ ch = IdleCh
    /\ op = IdleOp
    /\ panicked = FALSE
    /\ ops = 0
    /\ cx = [c \in Tasks |-> IdleCx]
    /\ lastCancel = NoCancel
    /\ sync = IdleSync
    /\ stops = NoStops
    /\ trail = NoTrail /\ conc = NoConc /\ dec = NoDec /\ siz = NoSiz
    /\ bk = NoBackoff /\ mp = NoMain /\ tg = NoTg /\ kl = NoKl

NextReentry ==
    \/ \E t \in Tasks, s \in Symbols : SpawnHandler(t, s)
    \/ \E t \in Tasks : HandlerStep(t)
    \/ \E t \in Tasks : DaemonStep(t)
    \/ SmStep
    \/ \E s \in Symbols : ExchangeFill(s)
    \/ \E d \in TickSteps : Tick(d)

SpecReentry == InitReentry /\ [][NextReentry]_vars

\* the daemon of slot t is the one of the first position: the daemons spawned
\* during the exploration are due later
OfFirstPosition(t) == daemon[t].pc # "idle" /\ daemon[t].due = TIME_EXIT_MINUTES

\* C37: a time-exit daemon acts only on the position it was spawned for; the
\* daemon of the first position, which has closed, ends its sleep without
\* sending a cancel or a close and without untracking anything
C37_DaemonLeavesNewPosition ==
    [][\A t \in Tasks :
        (OfFirstPosition(t) /\ daemon[t].pc = "sleep")
            => daemon'[t].pc \in {"sleep", "idle"}]_vars

\* C37 witness: the daemon of the first position has closed the position of a
\* later entry and is about to untrack its symbol, while the later entry's own
\* daemon is still asleep
C37_NewPositionClosedByOldDaemon ==
    \E t \in Tasks, u \in Tasks :
        /\ ~DRY_RUN
        /\ OfFirstPosition(t)
        /\ daemon[t].pc = "x_notify"
        /\ u # t
        /\ daemon[u].pc = "sleep"
        /\ daemon[u].sym = daemon[t].sym
        /\ daemon[u].due > now
        /\ pos[daemon[t].sym] = 0
        /\ trades[daemon[t].sym]["ENTRY"] = 2
        /\ trades[daemon[t].sym]["TIME_EXIT"] = 1
        /\ \A x \in Tasks : task[x].pc = "idle"
        /\ lastEntry.tpslRet = "true"

\* ---- dry run and the calls that change the exchange account -------------------
\* C38: while DRY_RUN is true no step of the bot changes the account on the
\* exchange: no order is created and none is cancelled on either channel
C38_DryRunLeavesExchange ==
    [][DRY_RUN => UNCHANGED <<pos, entriesOpen, stdOrders, algoOrders>>]_vars

\* C38, the entry path: in dry run no handler awaits create_order, fetch_order
\* or the placement of an exit order
C38_DryEntrySendsNothing ==
    DRY_RUN => \A t \in Tasks :
        task[t].pc \notin {"e_create", "e_fetch", "e_trades", "t_tp", "t_tpm",
                           "t_tpalgo", "t_sl", "t_slalgo"}

\* C38, the time-exit daemon: in dry run no daemon awaits cancel_all_orders or
\* the deletion of an algo order
C38_DryDaemonSendsNothing ==
    DRY_RUN => \A t \in Tasks : daemon[t].pc \notin {"x_cancel", "x_algoget", "x_algodel"}

\* C38 witness: the operator has switched a live bot to dry run by command and
\* then sent /panic; the panic has cancelled the exit orders of the standard
\* channel and is deleting the stop on the algo channel
C38_DryPanicCancels ==
    \E s \in Symbols :
        /\ DRY_RUN
        /\ tg.environ["DRY_RUN"] = "True"
        /\ op.pc = "p_algodel"
        /\ op.cur = s
        /\ pos[s] > 0
        /\ stdOrders[s] = {}
        /\ algoOrders[s] # {}

\* ---- the candle series: websocket_loop, process_closed_kline, the monitor ---
\* Candles are numbered as the stream closes them; candle 0 is the last one of
\* warm_up_data. kl.merged[s] is the index of the last row of df_map[s].
MaxCandles == 3

\* the task created for a closed candle waits for the event loop
TaskWaiting(s) == \E i \in 1..Len(kl.queue) : kl.queue[i].sym = s

klRest == <<is_halted, pending_entries, loss_cooldown, settingsVars, now, exchangeVars,
            taskVars, daemon, sm, ch, op, ops, trades, cx, lastCancel, sync, stops,
            trail, conc, dec, siz, bk, mp, tg>>

\* a row written at label ts: df.loc[new_dt] = new_row.iloc[0] overwrites the
\* row of that label or appends one, df.tail(1500) keeps the last row
MergedCandle(last, ts) == IF ts > last THEN ts ELSE last

\* websocket_loop, one message of a closed candle of a subscribed symbol: while
\* IS_PAUSED the message is skipped, otherwise a task is created for it
KlMessage(s) ==
    /\ kl.received[s] < MaxCandles
    /\ kl' = [kl EXCEPT !.received[s] = @ + 1,
                        !.queue = IF IS_PAUSED THEN @
                                  ELSE Append(@, [sym |-> s, ts |-> kl.received[s] + 1])]
    /\ UNCHANGED <<klRest, active_positions, portfolio>>

\* process_closed_kline up to the merge: the task of the oldest waiting candle
\* returns before the merge for a symbol in active_positions or pending_entries
KlProcess ==
    /\ kl.queue # <<>>
    /\ LET h == Head(kl.queue)
       IN kl' = [kl EXCEPT !.queue = Tail(@),
                           !.merged[h.sym] =
                               IF h.sym \in active_positions \/ h.sym \in pending_entries
                               THEN @ ELSE MergedCandle(@, h.ts)]
    /\ UNCHANGED <<klRest, active_positions, portfolio>>

\* the handler of a merged candle enters: place_market_entry_order marks the
\* symbol and the handler registers the position with the tracker
KlEntry(s) ==
    /\ s \notin active_positions
    /\ kl.merged[s] > 0
    /\ active_positions' = MarkActive(active_positions, s)
    /\ portfolio' = RegisterPosition(portfolio, s, "LONG")
    /\ UNCHANGED <<klRest, kl>>

\* the reconciliation tick drops the symbol and syncs the tracker
KlClose(s) ==
    /\ s \in active_positions
    /\ active_positions' = active_positions \ {s}
    /\ portfolio' = SyncPortfolio(portfolio, active_positions')
    /\ UNCHANGED <<klRest, kl>>

\* chandelier_monitoring_loop, one symbol of one cycle: last_bar = df.iloc[-1]
KlMonitor(s) ==
    /\ portfolio[s] # "none"
    /\ kl' = [kl EXCEPT !.seen[s] = [read |-> TRUE, bar |-> kl.merged[s],
                                     latest |-> kl.received[s],
                                     waiting |-> TaskWaiting(s)]]
    /\ UNCHANGED <<klRest, active_positions, portfolio>>

NextCandles ==
    \/ \E s \in Symbols : KlMessage(s)
    \/ KlProcess
    \/ \E s \in Symbols : KlEntry(s)
    \/ \E s \in Symbols : KlClose(s)
    \/ \E s \in Symbols : KlMonitor(s)
    \/ PauseCmd
    \/ ResumeCmd

SpecCandles == Init /\ [][NextCandles]_vars

\* C39: every closed candle received for a subscribed symbol is merged into the
\* symbol's series once its task has run, also while the symbol is in
\* active_positions, and a monitor cycle reads the most recent closed candle
C39_EveryCandleMerged ==
    \A s \in Symbols :
        /\ ~TaskWaiting(s) => kl.merged[s] = kl.received[s]
        /\ (kl.seen[s].read /\ ~kl.seen[s].waiting) => kl.seen[s].bar = kl.seen[s].latest

\* C39: the monitor has read, for a symbol in active_positions of a bot that was
\* never paused, a bar older than the last closed candle, whose task has run
C39_MonitorReadsOldCandle ==
    \E s \in Symbols :
        /\ s \in active_positions
        /\ ops = 0
        /\ kl.seen[s].read /\ ~kl.seen[s].waiting
        /\ kl.seen[s].bar < kl.seen[s].latest

\* C39: a candle received while the symbol is free and the bot runs is merged
C39_FreeSymbolMerged ==
    [][\A s \in Symbols :
          (kl.queue # <<>> /\ kl'.queue = Tail(kl.queue) /\ Head(kl.queue).sym = s
           /\ s \notin active_positions)
          => kl'.merged[s] = Head(kl.queue).ts]_vars

\* ---- the stop-loss leg of place_tp_sl_orders --------------------------------
\* the steps of place_tp_sl_orders that come before the stop-loss request
BeforeStopLeg == {"t_db", "t_tp", "t_tpm", "t_tpalgo"}

\* C40: a live call of place_tp_sl_orders that has not yet sent the stop-loss
\* request does not end: whatever the trade-log write and the take-profit leg
\* answer, the call goes on to the stop-loss request
C40_StopLegAlwaysSent ==
    [][\A t \in Tasks :
          (~DRY_RUN /\ task[t].pc \in BeforeStopLeg)
          => task'[t].pc \in BeforeStopLeg \cup {"t_sl"}]_vars

\* C40: a live entry is filled and place_tp_sl_orders has returned through its
\* except before any Trade row of the entry was written; the position is open
\* with no order on either channel
C40_LogFailureLeavesNoStop ==
    \E s \in Symbols :
        /\ ~DRY_RUN
        /\ lastEntry.sym = s /\ lastEntry.tpslRet = TpslExceptReturn
        /\ lastEntry.slVia = "none"
        /\ trades[s]["ENTRY"] = 0
        /\ pos[s] > 0
        /\ stdOrders[s] = {} /\ algoOrders[s] = {}
        /\ \A t \in Tasks : task[t].pc = "idle"

\* C40: a rejected limit take-profit whose take_profit_market retry is accepted
\* or sent on to the algo channel is followed by the stop-loss request
C40_RetriedTakeProfitGoesOn ==
    [][\A t \in Tasks :
          (task[t].pc = "t_tp" /\ task'[t].pc # "t_tp")
          => task'[t].pc \in {"t_sl", "t_tpm"}]_vars

====
